---- MODULE Spec2Model ----
(***************************************************************************)
(* A state-machine model of the metadata client core of                    *)
(* src/kernel/mds_client.c: the request pipeline (register, do_request,    *)
(* reply, forward, kick, wake, timeout), the session table and the map     *)
(* handler.                                                                *)
(*                                                                         *)
(* Everything the code guards with mdsc->mutex is one record ("C" below);  *)
(* each function of the source is an operator from such a record to the    *)
(* record after the call, so that nested calls (kick_requests ->           *)
(* __do_request -> register_session -> __open_session) compose as in the   *)
(* source.  An action is one critical section of one thread.  A function   *)
(* that drops mdsc->mutex in the middle (handle_reply, the caller in       *)
(* ceph_mdsc_do_request) is two actions with the thread's position kept in *)
(* a variable.                                                             *)
(*                                                                         *)
(* A wait list (struct list_head) is a sequence of requests, head first.   *)
(* list_add on a node that is still linked corrupts the lists: the model   *)
(* records it in fault and stops there, as it does for a BUG_ON or a NULL  *)
(* dereference.                                                            *)
(***************************************************************************)
EXTENDS Integers, Sequences, FiniteSets, TLC

\* ------------------------------------------------------------- bounds
MaxReq == 2
MaxMds == 2
\* the ranks of the model of the session table alone
MaxWideMds == 5
\* the sessions ever registered in the model of the session table alone
MaxTableSess == 4
\* CEPH_CAPS_PER_RELEASE, the releases one message holds, scaled down
CapsPerRelease == 3
\* the caps of the session of the model of the release messages
MaxRelCaps == 4
\* the values of cap_release_safety
MaxSafety == 4
\* the release messages that wait on s_cap_releases_done
MaxRelDone == 2
\* sizeof(struct ceph_mds_cap_reconnect)
CapRecordSize == 56
\* sizeof(struct ceph_mds_snaprealm_reconnect)
RealmRecordSize == 24
\* the caps of the session that reconnects
MaxRcCaps == 3
\* the snap realms of the client that reconnects
MaxRealms == 4
\* the passes through "retry:" the model follows
MaxTries == 4
\* the release messages sent that the model counts
MaxRelSent == 2
MaxSess == 2
MaxEpoch == 2
MaxFwd == 1
MaxAttempts == 2
\* complete() calls counted per request; the last value stands for "or more"
MaxComplete == 2
\* the events outside the regular course of a request (a timeout, a failed
\* allocation, a forward, an error reply, a session or map change, a tick,
\* the unmount) that one run sees
MaxDisturb == 2

Reqs == 1..MaxReq
\* the lengths of the paths of the caps: none, short, longer than the 100
\* bytes the first len allows for
PathLens == {0, 40, 200}
Ranks == 0..(MaxMds - 1)
\* session objects ever allocated; one spare so that an allocation past the
\* bound is representable and can be cut by the guard of the action
SessIds == 1..(MaxSess + 1)

\* req->r_resend_mds = -1: no mds
NoMds == -1

VARIABLES
    last_tid,          \* mdsc->last_tid
    request_tree,      \* mdsc->request_tree: the registered requests
    req,               \* the request objects
    sessions,          \* mdsc->sessions[]: rank -> session object, 0 = NULL
    max_sessions,      \* mdsc->max_sessions
    sess,              \* the session objects
    nsess,             \* session objects allocated so far
    waiting_for_map,   \* mdsc->waiting_for_map
    mdsmap,            \* mdsc->mdsmap
    stopping,          \* mdsc->stopping
    deadline,          \* r: jiffies >= r_started + r_timeout
    pc,                \* the position of the caller of each request
    ret,               \* what ceph_mdsc_do_request returned
    hr,                \* the reply being handled between the two locks of handle_reply
    um,                \* the position of the unmounting thread
    disturbed,         \* the number of events outside the regular course so far
    oldest_sent,       \* rank -> the oldest_client_tid of the last request
                       \* message sent to the rank, 0 before the first
    fault,             \* "none"; "oops": a BUG_ON fired or a NULL pointer was
                       \* dereferenced under mdsc->mutex; "list": list_add on a
                       \* node that was still linked
    ev,                \* the last step: handler, its input, the messages it sent
    ci,                \* struct ceph_inode_info of one inode: its caps
    grant,             \* the last cap message handled for the inode
    tab,               \* mdsc->sessions[] and mdsc->max_sessions with wide ranks
    rel,               \* the cap release messages of one session
    rc,                \* send_mds_reconnect building the reconnect message
    rn,                \* one session's cap ttl and the clock
    ls,                \* the dentry leases and the sessions they belong to
    lk                 \* the threads inside mds_client.c and the locks they hold

\* the state of the mds client
mdsvars == <<last_tid, request_tree, req, sessions, max_sessions, sess, nsess,
             waiting_for_map, mdsmap, stopping, deadline, pc, ret, hr, um,
             disturbed, oldest_sent, fault, ev>>

\* the state of the cap code of inode.c
capvars == <<ci, grant>>

\* the state of the models of one function each
unitvars == <<capvars, tab, rel, rc, rn, ls, lk>>

vars == <<mdsvars, unitvars>>

\* ------------------------------------------------------------- helpers
Remove(s, x) == SelectSeq(s, LAMBDA y : y # x)

InSeq(s, x) == \E i \in 1..Len(s) : s[i] = x

Occurrences(s, x) == Cardinality({i \in 1..Len(s) : s[i] = x})

\* the capacity taken as the rank plus one, with no rounding
Pow2CeilExact(p, n) == n

RECURSIVE Pow2Ceil(_, _)
\* the smallest power of two p*2^k that is >= n
Pow2Ceil(p, n) == IF p >= n THEN p ELSE Pow2Ceil(2 * p, n)

\* the slots of mdsc->sessions[] at its largest: register_session grows the
\* array to a power of two
Slots == 0..(Pow2Ceil(1, MaxMds) - 1)

\* ------------------------------------------------------------- objects
\* ceph_mdsc_create_request; sent: the ranks the request was sent to, kept
\* to tell which ranks can answer it
NewRequest ==
    [tid |-> 0, timeout |-> FALSE, session |-> 0, fwd_session |-> 0,
     resend_mds |-> NoMds, num_fwd |-> 0, attempts |-> 0, num_stale |-> 0,
     got_unsafe |-> FALSE, got_safe |-> FALSE, reply |-> "none", err |-> FALSE,
     result |-> "none", direct_mode |-> "any", completion |-> 0,
     safe_completion |-> 0, sent |-> {}]

\* a cap that is not held: no entry on s_caps
NoCap == [held |-> FALSE, seq |-> 0, issue_seq |-> 0, gen |-> 0]

\* the fields register_session sets; s_cap_ttl is "zero" for 0 and "set" for
\* a time; s_caps holds at most one cap per inode, and the inode of a cap is
\* named by the request whose reply granted it
NewSession(mds) ==
    [s_mds |-> mds, s_state |-> "new", s_seq |-> 0, s_ttl |-> FALSE,
     s_cap_gen |-> 0, s_cap_ttl |-> "zero", s_caps |-> [c \in Reqs |-> NoCap],
     s_waiting |-> <<>>, s_unsafe |-> <<>>]

FreeSession ==
    [s_mds |-> NoMds, s_state |-> "free", s_seq |-> 0, s_ttl |-> FALSE,
     s_cap_gen |-> 0, s_cap_ttl |-> "zero", s_caps |-> [c \in Reqs |-> NoCap],
     s_waiting |-> <<>>, s_unsafe |-> <<>>]

\* mdsc->mdsmap = kzalloc(...): epoch 0, m_max_mds 0
EmptyMap ==
    [epoch |-> 0, max_mds |-> 0,
     state |-> [m \in Ranks |-> "down"], addr |-> [m \in Ranks |-> 0]]

\* ------------------------------------------------------------- the map
\* ceph_mdsmap_get_state: the state of a rank, "down" (<= 0) past m_max_mds
ceph_mdsmap_get_state(map, mds) ==
    IF mds \in Ranks /\ mds < map.max_mds THEN map.state[mds] ELSE "down"

\* state > 0
IsUp(st) == st \in {"reconnect", "active"}

\* state >= CEPH_MDS_STATE_ACTIVE
AtLeastActive(st) == st = "active"

\* state >= CEPH_MDS_STATE_RECONNECT
AtLeastReconnect(st) == st \in {"reconnect", "active"}

\* what __choose_mds can return when it does not use the resend hint: a rank
\* taken from a cap or a fragment, or ceph_mdsmap_get_random_mds, which is -1
\* only when no rank is up
Targets(map) ==
    Ranks \cup (IF \E m \in Ranks : IsUp(ceph_mdsmap_get_state(map, m))
                THEN {} ELSE {NoMds})

\* ------------------------------------------------------------- state record
Cur ==
    [last_tid |-> last_tid, tree |-> request_tree, req |-> req,
     sessions |-> sessions, max_sessions |-> max_sessions, sess |-> sess,
     nsess |-> nsess, wfm |-> waiting_for_map, mdsmap |-> mdsmap,
     stopping |-> stopping, fault |-> fault, out |-> <<>>,
     asked |-> {}, tried |-> {}, moves |-> {}, woke |-> {},
     held |-> {}, acq |-> {}, bare |-> {}, kicked |-> <<>>, gone |-> {},
     kickcaps |-> {}]

\* Cur.out collects the messages a handler hands to the messenger, Cur.asked
\* the requests for which __choose_mds went past the resend hint, Cur.tried
\* the requests for which a message was allocated, Cur.moves the assignments
\* to s_state as pairs <<state before, state after>>.  Cur.held is the set
\* of locks the thread of the handler holds, Cur.acq the pairs <<lock held,
\* lock taken>> of its lock acquisitions, Cur.bare the functions documented
\* "called under mdsc->mutex" that it ran without holding mdsc->mutex,
\* Cur.kicked the requests kick_requests dispatched, in the order of the calls,
\* Cur.gone the requests __unregister_request was called for when they were
\* no longer in the request tree: their reference was put a second time,
\* Cur.kickcaps the sessions ceph_kick_flushing_caps was called for, each
\* with whether the session table still held it.

\* the record of a step: the handler, the request it found, what it decided
\* and the messages it handed to the messenger
Event(kind, r, how, C) ==
    [kind |-> kind, r |-> r, how |-> how, out |-> C.out, moves |-> C.moves,
     woke |-> C.woke, acq |-> C.acq, bare |-> C.bare, kicked |-> C.kicked,
     gone |-> C.gone, kickcaps |-> C.kickcaps]

\* a step of a thread that touches no session and sends nothing
Quiet(kind, r, how) ==
    [kind |-> kind, r |-> r, how |-> how, out |-> <<>>, moves |-> {},
     woke |-> {}, acq |-> {}, bare |-> {}, kicked |-> <<>>, gone |-> {},
     kickcaps |-> {}]

\* the bounds on the counters the code leaves unbounded
WithinBounds(C) ==
    /\ C.nsess <= MaxSess
    /\ \A r \in Reqs : C.req[r].attempts <= MaxAttempts

\* the request messages to rank m among the messages out
RequestsTo(out, m) ==
    {i \in DOMAIN out : out[i].type = "request" /\ out[i].mds = m}

\* what the last request message sent to each rank carried as
\* oldest_client_tid, after the messages out went to the messenger
OldestSent(old, out) ==
    [m \in Ranks |->
        IF RequestsTo(out, m) = {} THEN old[m]
        ELSE out[CHOOSE i \in RequestsTo(out, m) :
                     \A j \in RequestsTo(out, m) : j <= i].oldest_client_tid]

Install(C) ==
    /\ WithinBounds(C)
    /\ oldest_sent' = OldestSent(oldest_sent, C.out)
    /\ last_tid' = C.last_tid
    /\ request_tree' = C.tree
    /\ req' = C.req
    /\ sessions' = C.sessions
    /\ max_sessions' = C.max_sessions
    /\ sess' = C.sess
    /\ nsess' = C.nsess
    /\ waiting_for_map' = C.wfm
    /\ mdsmap' = C.mdsmap
    /\ stopping' = C.stopping
    /\ fault' = C.fault

\* n more events outside the regular course
Charge(n) ==
    /\ disturbed + n <= MaxDisturb
    /\ disturbed' = disturbed + n

Cost(b) == IF b THEN 1 ELSE 0

Send(C, msg) == [C EXCEPT !.out = Append(@, msg)]

\* mutex_lock, down_read, down_write or spin_lock of lock l
Lock(C, l) ==
    [C EXCEPT !.acq = @ \cup {<<h, l>> : h \in C.held}, !.held = @ \cup {l}]

\* mutex_unlock, up_read or spin_unlock of lock l
Unlock(C, l) == [C EXCEPT !.held = @ \ {l}]

\* the thread gives up lock from and takes lock to
Swap(C, from, to) == Lock(Unlock(C, from), to)

\* the thread enters function fn, which is to be called under mdsc->mutex
Enter(C, fn) ==
    IF "mutex" \in C.held THEN C ELSE [C EXCEPT !.bare = @ \cup {fn}]

\* the kernel oopses in the middle of a handler; what the handler would have
\* done next is not done
Oops(C) == [C EXCEPT !.fault = "oops"]

\* r is linked through r_wait on some wait list
Parked(C, r) ==
    \/ InSeq(C.wfm, r)
    \/ \E s \in SessIds : InSeq(C.sess[s].s_waiting, r)

\* list_add(&req->r_wait, head): r is linked at the head of the list; a node
\* that is still linked elsewhere leaves that list broken
ParkOnMap(C, r) ==
    [C EXCEPT !.wfm = <<r>> \o @,
              !.fault = IF Parked(C, r) THEN "list" ELSE @]

ParkOnSession(C, sid, r) ==
    [C EXCEPT !.sess[sid].s_waiting = <<r>> \o @,
              !.fault = IF Parked(C, r) THEN "list" ELSE @]

\* ------------------------------------------------------------- sessions
\* session->s_state = st
SetState(C, sid, st) ==
    [C EXCEPT !.sess[sid].s_state = st,
              !.moves = @ \cup {<<C.sess[sid].s_state, st>>}]

__have_session(C, mds) ==
    mds >= 0 /\ mds < C.max_sessions /\ C.sessions[mds] # 0

\* __ceph_lookup_mds_session: the session object of a rank, 0 if none
__ceph_lookup_mds_session(C, mds) ==
    IF __have_session(C, mds) THEN C.sessions[mds] ELSE 0

register_session(C, mds) ==
    LET id == IF C.nsess < MaxSess + 1 THEN C.nsess + 1 ELSE MaxSess + 1
    IN [Enter(C, "register_session") EXCEPT
                 !.nsess = @ + 1,
                 !.sess[id] = NewSession(mds),
                 !.moves = @ \cup {<<"free", "new">>},
                 !.max_sessions = IF mds >= @ THEN Pow2Ceil(1, mds + 1) ELSE @,
                 !.sessions[mds] = id]

unregister_session(C, mds) ==
    [Enter(C, "unregister_session") EXCEPT !.sessions[mds] = 0]

\* __open_session; fail is create_session_msg returning an error, which the
\* function swallows: it returns 0 with the session left in opening
__open_session(C, sid, fail) ==
    IF fail THEN SetState(C, sid, "opening")
    ELSE Send(SetState(C, sid, "opening"),
              [type |-> "session_open", mds |-> C.sess[sid].s_mds, sid |-> sid])

put_request_sessions(C, r) ==
    [C EXCEPT !.req[r].session = 0, !.req[r].fwd_session = 0]

\* ------------------------------------------------------------- requests
__lookup_request(C, tid) ==
    IF \E r \in C.tree : C.req[r].tid = tid
    THEN CHOOSE r \in C.tree : C.req[r].tid = tid
    ELSE 0

\* __register_request with "req->r_tid = mdsc->last_tid + 1": the counter is
\* not advanced
register_request_same_tid(C, r) ==
    [C EXCEPT !.req[r].tid = C.last_tid + 1,
              !.tree = @ \cup {r}]

__register_request(C, r) ==
    [C EXCEPT !.last_tid = @ + 1,
              !.req[r].tid = C.last_tid + 1,
              !.tree = @ \cup {r}]

\* __unregister_request: radix_tree_delete, then ceph_mdsc_put_request
\* whether or not the tid was found
__unregister_request(C, r) ==
    [C EXCEPT !.tree = @ \ {r},
              !.gone = IF r \in C.tree THEN @ ELSE @ \cup {r}]

\* __get_oldest_tid returning the highest tid of the request tree
get_newest_tid(C) ==
    IF C.tree = {} THEN 0
    ELSE LET tids == {C.req[r].tid : r \in C.tree}
         IN CHOOSE t \in tids : \A u \in tids : t >= u

__get_oldest_tid(C) ==
    IF C.tree = {} THEN 0
    ELSE LET tids == {C.req[r].tid : r \in C.tree}
         IN CHOOSE t \in tids : \A u \in tids : t <= u

complete_request(C, r) ==
    [C EXCEPT !.req[r].completion = IF @ < MaxComplete THEN @ + 1 ELSE @]

\* __choose_mds takes the resend hint
UsesHint(C, r) ==
    LET hint == C.req[r].resend_mds
    IN hint >= 0 /\ (__have_session(C, hint)
                     \/ IsUp(ceph_mdsmap_get_state(C.mdsmap, hint)))

\* pick: the rank found without the hint
__choose_mds(C, r, pick) ==
    IF UsesHint(C, r) THEN C.req[r].resend_mds ELSE pick

\* the head of the message __prepare_send_request builds
request_head(C, r, sid) ==
    [type |-> "request", mds |-> C.sess[sid].s_mds, sid |-> sid,
     tid |-> C.req[r].tid, oldest_client_tid |-> __get_oldest_tid(C),
     replay |-> C.req[r].got_unsafe, num_fwd |-> C.req[r].num_fwd,
     num_retry |-> C.req[r].attempts - 1, registered |-> r \in C.tree]

\* __prepare_send_request; fail is create_request_message returning an error
__prepare_send_request(C, r, fail) ==
    IF fail
    THEN complete_request([C EXCEPT !.req[r].attempts = @ + 1,
                                    !.tried = @ \cup {r},
                                    !.req[r].reply = "ENOMEM"], r)
    ELSE [C EXCEPT !.req[r].attempts = @ + 1, !.tried = @ \cup {r}]

\* ceph_con_send of the message __prepare_send_request left in r_request
send_request(C, r, sid, fail) ==
    IF fail THEN C
    ELSE Send([C EXCEPT !.req[r].sent = @ \cup {C.sess[sid].s_mds}],
              request_head(C, r, sid))

\* __do_request once the session is there: "send", or park on s_waiting
__do_request_session(C, r, sid, fail) ==
    IF C.sess[sid].s_state \notin {"open", "hung"}
    THEN ParkOnSession(IF C.sess[sid].s_state \in {"new", "closing"}
                       THEN __open_session([C EXCEPT !.tried = @ \cup {r}],
                                           sid, fail)
                       ELSE C, sid, r)
    ELSE send_request(
             __prepare_send_request(
                 [C EXCEPT !.req[r].session = sid, !.req[r].resend_mds = NoMds],
                 r, fail),
             r, sid, fail)

\* __do_request once the rank is chosen
__do_request_mds(C, r, mds, fail) ==
    IF mds < 0 \/ ~AtLeastActive(ceph_mdsmap_get_state(C.mdsmap, mds))
    THEN Send(ParkOnMap(C, r), [type |-> "want_map", epoch |-> C.mdsmap.epoch + 1])
    ELSE IF __have_session(C, mds)
    THEN __do_request_session(C, r, C.sessions[mds], fail)
    ELSE __do_request_session(register_session(C, mds), r,
                              register_session(C, mds).sessions[mds], fail)

\* o: what the environment decides during the call: o.mds the rank
\* __choose_mds finds without a hint, o.fail the message allocation failing;
\* expired: time_after(jiffies, r_started + r_timeout)
__do_request_at(C, r, o, expired) ==
    IF C.fault # "none" THEN C
    ELSE IF C.req[r].reply # "none" THEN Enter(C, "__do_request")
    ELSE IF C.req[r].timeout /\ expired
    THEN complete_request([Enter(C, "__do_request") EXCEPT
                              !.req[r].reply = "EIO"], r)
    ELSE __do_request_mds(
             IF UsesHint(C, r) THEN Enter(C, "__do_request")
             ELSE [Enter(C, "__do_request") EXCEPT !.asked = @ \cup {r}],
             r, __choose_mds(C, r, o.mds), o.fail)

__do_request(C, r, o) == __do_request_at(C, r, o, deadline[r])

\* the allocations that can fail while the budget of events has n left
FailChoices(n) == IF n > 0 THEN BOOLEAN ELSE {FALSE}

\* what the environment can decide during one __do_request
Oracles(map, n) == [mds : Targets(map), fail : FailChoices(n)]

DefaultOracle(map) == [mds |-> CHOOSE m \in Targets(map) : TRUE, fail |-> FALSE]

\* one decision per request a handler may dispatch, with at most n failing
\* allocations; only a registered or parked request is ever dispatched
OracleFns(map, n) ==
    LET live == {r \in Reqs : r \in request_tree \/ Parked(Cur, r)}
        picks == {f \in [Reqs -> Targets(map)] :
                    \A r \in Reqs \ live : f[r] = DefaultOracle(map).mds}
        fails == {F \in SUBSET live : Cardinality(F) <= n}
    IN {[r \in Reqs |-> [mds |-> f[r], fail |-> r \in F]] : f \in picks, F \in fails}

\* the decisions of o are those the handler asked r for: no choice of a rank
\* that was not looked for, no failure of an allocation that was not made
Asked(C, r, o) ==
    /\ r \notin C.asked => o.mds = DefaultOracle(C.mdsmap).mds
    /\ r \notin C.tried => ~o.fail

AskedAll(C, os) == \A r \in Reqs : Asked(C, r, os[r])

\* the number of failing allocations in a choice of decisions
Fails(os) == Cardinality({r \in Reqs : os[r].fail})

RECURSIVE DispatchAll(_, _, _)
\* __do_request on each request of the sequence, in order
DispatchAll(C, rs, os) ==
    IF rs = <<>> THEN C
    ELSE DispatchAll(__do_request(C, Head(rs), os[Head(rs)]), Tail(rs), os)

\* __wake_requests on mdsc->waiting_for_map: each request is unlinked and
\* dispatched; a request that parks again is linked at the head
wake_waiting_for_map(C, os) ==
    IF C.fault # "none" THEN C
    ELSE DispatchAll([Enter(C, "__wake_requests") EXCEPT !.wfm = <<>>],
                     C.wfm, os)

\* __wake_requests on the s_waiting list of a session object
wake_session_waiting(C, sid, os) ==
    IF C.fault # "none" THEN C
    ELSE DispatchAll([Enter(C, "__wake_requests") EXCEPT
                         !.sess[sid].s_waiting = <<>>],
                     C.sess[sid].s_waiting, os)

RECURSIVE SortByTid(_, _)
\* the registered requests of a set in ascending tid order
SortByTid(C, rs) ==
    IF rs = {} THEN <<>>
    ELSE LET lo == CHOOSE r \in rs : \A q \in rs : C.req[r].tid <= C.req[q].tid
         IN <<lo>> \o SortByTid(C, rs \ {lo})

\* the rank of the session object a request points to, NoMds for NULL
SessionMds(C, sid) == IF sid = 0 THEN NoMds ELSE C.sess[sid].s_mds

\* the test of kick_requests without "if (reqs[i]->r_got_unsafe) continue"
KickHitUnsafe(C, r, mds, all) ==
    \/ SessionMds(C, C.req[r].session) = mds
    \/ all /\ SessionMds(C, C.req[r].fwd_session) = mds

\* the test of kick_requests on one request
KickHit(C, r, mds, all) ==
    /\ ~C.req[r].got_unsafe
    /\ \/ SessionMds(C, C.req[r].session) = mds
       \/ all /\ SessionMds(C, C.req[r].fwd_session) = mds

RECURSIVE KickEach(_, _, _, _, _)
KickEach(C, rs, mds, all, os) ==
    IF rs = <<>> \/ C.fault # "none" THEN C
    ELSE KickEach(IF KickHit(C, Head(rs), mds, all)
                  THEN __do_request(
                           put_request_sessions(
                               [C EXCEPT !.kicked = Append(@, Head(rs))], Head(rs)),
                           Head(rs), os[Head(rs)])
                  ELSE C,
                  Tail(rs), mds, all, os)

kick_requests(C, mds, all, os) ==
    KickEach(Enter(C, "kick_requests"), SortByTid(C, C.tree), mds, all, os)

\* ------------------------------------------------------------- the caller
\* list_del_init(&req->r_unsafe_item): the request leaves the s_unsafe list it
\* is linked on
UnlinkUnsafe(C, r) ==
    [C EXCEPT !.sess = [s \in SessIds |-> [C.sess[s] EXCEPT !.s_unsafe = Remove(@, r)]]]

\* ceph_mdsc_do_request, "clean up": the branch of IS_ERR(req->r_reply)
CallerCleanup(C, r) ==
    [UnlinkUnsafe(__unregister_request(C, r), r) EXCEPT
        !.req[r].reply = "none", !.req[r].safe_completion = 1]

IsErr(reply) == reply \in {"EIO", "ENOMEM"}

\* the return value once the caller holds the mutex again
CallerResult(C, r) ==
    IF IsErr(C.req[r].reply) THEN C.req[r].reply
    ELSE IF C.req[r].err THEN "err"
    ELSE C.req[r].result

CallerFinish(C, r) ==
    IF IsErr(C.req[r].reply) THEN CallerCleanup(C, r) ELSE C

\* the timeouts callers pass: every request has one (a request without is one
\* whose deadline never comes)
Timeouts == {TRUE}

\* ceph_mdsc_do_request after __do_request returned in state C: when an error
\* is in r_reply the caller does not wait and cleans up in the same critical
\* section
SubmitDone(C, r, o) ==
    /\ Asked(C, r, o)
    /\ Install(IF C.req[r].reply # "none" THEN CallerFinish(C, r) ELSE C)
    /\ pc' = [pc EXCEPT ![r] = IF C.req[r].reply # "none" THEN "done" ELSE "waiting"]
    /\ ret' = [ret EXCEPT ![r] = IF C.req[r].reply # "none"
                                 THEN CallerResult(C, r) ELSE @]
    /\ UNCHANGED unitvars
    /\ ev' = Event("submit", r, "",
                    IF C.req[r].reply # "none" THEN CallerFinish(C, r) ELSE C)

\* ceph_mdsc_do_request from mutex_lock to the wait
Submit(r, timeout, o) ==
    /\ fault = "none"
    /\ um \in {"mounted", "wait", "pre_done"}
    /\ pc[r] = "new"
    /\ \A q \in Reqs : q < r => pc[q] # "new"
    /\ Charge(Cost(o.fail) + Cost(r > 1))
    /\ SubmitDone(__do_request_at(
                      __register_request(
                          [Lock(Cur, "mutex") EXCEPT !.req[r].timeout = timeout], r),
                      r, o, FALSE),
                  r, o)
    /\ deadline' = [deadline EXCEPT ![r] = FALSE]
    /\ UNCHANGED <<hr, um>>

\* jiffies reaches r_started + r_timeout
TimePasses(r) ==
    /\ fault = "none"
    /\ pc[r] # "new" /\ req[r].timeout /\ ~deadline[r]
    /\ Charge(1)
    /\ deadline' = [deadline EXCEPT ![r] = TRUE]
    /\ UNCHANGED unitvars
    /\ ev' = Quiet("time", r, "")
    /\ UNCHANGED <<last_tid, request_tree, req, sessions, max_sessions, sess,
                   nsess, waiting_for_map, mdsmap, stopping, pc, ret, hr, um,
                   oldest_sent, fault>>

\* the wait returns because r_completion was signalled; the caller takes
\* mdsc->mutex again and finishes
CallerWake(r) ==
    /\ fault = "none"
    /\ pc[r] = "waiting" /\ req[r].completion > 0
    /\ Install(CallerFinish(Cur, r))
    /\ ret' = [ret EXCEPT ![r] = CallerResult(Cur, r)]
    /\ UNCHANGED unitvars
    /\ ev' = [Quiet("caller_wake", r, "") EXCEPT
                 !.gone = CallerFinish(Cur, r).gone]
    /\ pc' = [pc EXCEPT ![r] = "done"]
    /\ UNCHANGED <<deadline, hr, um, disturbed>>

\* wait_for_completion_timeout returns 0: the caller stores -EIO in r_reply,
\* not yet holding mdsc->mutex
CallerExpire(r) ==
    /\ fault = "none"
    /\ pc[r] = "waiting" /\ req[r].timeout /\ deadline[r]
    /\ req[r].completion = 0
    /\ req' = [req EXCEPT ![r].reply = "EIO"]
    /\ pc' = [pc EXCEPT ![r] = "expired"]
    /\ UNCHANGED unitvars
    /\ ev' = Quiet("caller_expire", r, "")
    /\ UNCHANGED <<last_tid, request_tree, sessions, max_sessions, sess, nsess,
                   waiting_for_map, mdsmap, stopping, deadline, ret, hr, um,
                   disturbed, oldest_sent, fault>>

\* the expired caller holds mdsc->mutex again
CallerAfterExpire(r) ==
    /\ fault = "none"
    /\ pc[r] = "expired"
    /\ Install(CallerFinish(Cur, r))
    /\ ret' = [ret EXCEPT ![r] = CallerResult(Cur, r)]
    /\ UNCHANGED unitvars
    /\ ev' = [Quiet("caller_expired", r, "") EXCEPT
                 !.gone = CallerFinish(Cur, r).gone]
    /\ pc' = [pc EXCEPT ![r] = "done"]
    /\ UNCHANGED <<deadline, hr, um, disturbed>>

\* ------------------------------------------------------------- replies
Idle == [r |-> 0, result |-> "none"]

Results == {"ok", "ESTALE", "corrupt"}

\* handle_reply from "if (req->r_session && req->r_session->s_mds != mds)"
\* to mutex_unlock(&mdsc->mutex), the request pointing to the session of the
\* sender if it has one
handle_reply_link(C, r, safe) ==
    IF C.req[r].session = 0 THEN [C |-> C, r |-> r, how |-> "no_session"]
    ELSE IF C.req[r].reply # "none" THEN [C |-> Oops(C), r |-> r, how |-> "bug"]
    ELSE IF ~safe
    THEN [C |-> [C EXCEPT !.req[r].got_unsafe = TRUE,
                          !.sess[C.req[r].session].s_unsafe = Append(@, r)],
          r |-> r, how |-> "parse"]
    ELSE [C |-> C, r |-> r, how |-> "parse"]

handle_reply_session(C, r, mds, safe) ==
    handle_reply_link(
        IF C.req[r].session # 0 /\ C.sess[C.req[r].session].s_mds # mds
        THEN [C EXCEPT !.req[r].session = __ceph_lookup_mds_session(C, mds)]
        ELSE C,
        r, safe)

\* handle_reply, "if (head->safe)", after r_got_safe was set and the request
\* unregistered
handle_reply_safe(C, r, mds) ==
    IF C.req[r].got_unsafe
    THEN IF C.req[r].session = 0
         THEN [C |-> Oops(C), r |-> r, how |-> "bug"]
         ELSE [C |-> UnlinkUnsafe(C, r), r |-> r, how |-> "safe_done"]
    ELSE handle_reply_session(C, r, mds, TRUE)

\* handle_reply without the test for duplicates
handle_reply_found_no_dup(C, r, mds, safe) ==
    IF safe
    THEN handle_reply_safe([__unregister_request(C, r) EXCEPT
                               !.req[r].got_safe = TRUE,
                               !.req[r].safe_completion = 1], r, mds)
    ELSE handle_reply_session(C, r, mds, FALSE)

\* handle_reply with a safe reply that leaves the request registered
handle_reply_found_registered(C, r, mds, safe) ==
    IF (C.req[r].got_unsafe /\ ~safe) \/ (C.req[r].got_safe /\ safe)
    THEN [C |-> C, r |-> r, how |-> "dup"]
    ELSE IF safe
    THEN handle_reply_safe([C EXCEPT !.req[r].got_safe = TRUE,
                                     !.req[r].safe_completion = 1], r, mds)
    ELSE handle_reply_session(C, r, mds, FALSE)

\* handle_reply for the request r found by the lookup
handle_reply_found(C, r, mds, safe) ==
    IF (C.req[r].got_unsafe /\ ~safe) \/ (C.req[r].got_safe /\ safe)
    THEN [C |-> C, r |-> r, how |-> "dup"]
    ELSE IF safe
    THEN handle_reply_safe([__unregister_request(C, r) EXCEPT
                               !.req[r].got_safe = TRUE,
                               !.req[r].safe_completion = 1], r, mds)
    ELSE handle_reply_session(C, r, mds, FALSE)

\* handle_reply from the lookup to mutex_unlock(&mdsc->mutex).  The record
\* returned says what the code decided: "unknown" tid, "dup", "safe_done" (the
\* cleanup of a request that had its unsafe reply), "no_session", "bug" (a
\* BUG_ON fired) or "parse" (the handler goes on to parse the reply).
handle_reply_locked(C, tid, mds, safe) ==
    IF __lookup_request(C, tid) = 0 THEN [C |-> C, r |-> 0, how |-> "unknown"]
    ELSE handle_reply_found(C, __lookup_request(C, tid), mds, safe)

\* the reply the cluster sends in the regular course: a good one for a
\* registered request, from the rank the request was last sent to, not a
\* second unsafe reply
RegularReply(C, tid, mds, result) ==
    LET r == __lookup_request(C, tid)
    IN /\ r # 0
       /\ result = "ok"
       /\ C.req[r].session # 0
       /\ C.sess[C.req[r].session].s_mds = mds
       /\ ~C.req[r].got_unsafe

HandleReplyDone(h, result) ==
    /\ Install(h.C)
    /\ hr' = IF h.how = "parse" THEN [r |-> h.r, result |-> result] ELSE Idle
    /\ UNCHANGED unitvars
    /\ ev' = Event("reply", h.r, h.how, h.C)

\* a reply (tid, safe, result) from mds is dispatched: handle_reply up to the
\* point where it gives up mdsc->mutex
HandleReply(tid, mds, safe, result) ==
    /\ fault = "none"
    /\ hr = Idle
    \* a rank answers a request it was sent
    /\ \E r \in Reqs : req[r].tid = tid /\ req[r].sent # {}
    /\ __lookup_request(Cur, tid) # 0 => mds \in req[__lookup_request(Cur, tid)].sent
    \* for a tid that is not registered nothing of the reply is read
    /\ __lookup_request(Cur, tid) = 0 => (mds = 0 /\ ~safe /\ result = "ok")
    /\ Charge(Cost(~RegularReply(Cur, tid, mds, result)))
    /\ HandleReplyDone(handle_reply_locked(Lock(Cur, "mutex"), tid, mds, safe),
                       result)
    /\ UNCHANGED <<deadline, pc, ret, um>>

\* handle_reply after the parse, the result being ESTALE
handle_reply_stale(C, r, o) ==
    IF C.req[r].num_stale <= 2
    THEN __do_request(put_request_sessions(Swap(C, "s_mutex", "mutex"), r), r, o)
    ELSE complete_request([Lock(C, "snap_rwsem") EXCEPT
                              !.req[r].reply = "msg",
                              !.req[r].result = "ESTALE"], r)

\* ceph_fill_trace adding the cap the reply grants on the inode of r: gen is
\* the s_cap_gen of the session at the grant
ceph_add_cap(C, sid, c) ==
    [C EXCEPT !.sess[sid].s_caps[c] =
        [held |-> TRUE, seq |-> 1, issue_seq |-> 1,
         gen |-> C.sess[sid].s_cap_gen]]

\* handle_reply from mutex_lock(&req->r_session->s_mutex) to the end
handle_reply_parse(C, r, result, o) ==
    IF C.req[r].session = 0
    THEN Oops(C)
    ELSE IF result = "corrupt"
    THEN complete_request([Lock(C, "s_mutex") EXCEPT !.req[r].err = TRUE], r)
    ELSE IF result = "ESTALE"
    THEN handle_reply_stale([Lock(C, "s_mutex") EXCEPT
                                !.req[r].direct_mode = "auth",
                                !.req[r].num_stale = @ + 1], r, o)
    ELSE complete_request(
             ceph_add_cap([Lock(Lock(C, "s_mutex"), "snap_rwsem") EXCEPT
                              !.req[r].num_stale = 0,
                              !.req[r].reply = "msg",
                              !.req[r].result = result],
                          C.req[r].session, r), r)

HandleReplyParseDone(C, r, result, o) ==
    /\ Asked(C, r, o)
    /\ Install(C)
    /\ UNCHANGED unitvars
    /\ ev' = Event("reply_parse", r, result, C)

HandleReplyParse(o) ==
    /\ fault = "none"
    /\ hr # Idle
    /\ Charge(Cost(o.fail))
    /\ HandleReplyParseDone(handle_reply_parse(Cur, hr.r, hr.result, o),
                            hr.r, hr.result, o)
    /\ hr' = Idle
    /\ UNCHANGED <<deadline, pc, ret, um>>

\* ------------------------------------------------------------- forwards
\* handle_forward for the request r found by the lookup.  The code reads
\* mdsc->sessions[next_mds]->s_state before it asks __have_session: without a
\* session for next_mds that is a read through a NULL or out-of-bounds
\* pointer, which either faults (segv) or yields a value that the test of
\* __have_session then makes irrelevant.
handle_forward_found(C, r, from_mds, next_mds, fwd_seq, must_resend, segv, o) ==
    IF ~__have_session(C, next_mds) /\ segv
    THEN Oops(C)
    ELSE IF fwd_seq <= C.req[r].num_fwd THEN C
    ELSE IF /\ ~must_resend
            /\ __have_session(C, next_mds)
            /\ C.sess[C.sessions[next_mds]].s_state \in {"open", "hung"}
    THEN [C EXCEPT !.req[r].num_fwd = fwd_seq,
                   !.req[r].session = __ceph_lookup_mds_session(C, next_mds),
                   !.req[r].fwd_session = __ceph_lookup_mds_session(C, from_mds)]
    ELSE __do_request(
             put_request_sessions(
                 [C EXCEPT !.req[r].num_fwd = fwd_seq,
                           !.req[r].resend_mds = next_mds], r),
             r, o)

handle_forward(C, tid, from_mds, next_mds, fwd_seq, must_resend, segv, o) ==
    IF __lookup_request(C, tid) = 0 THEN C
    ELSE handle_forward_found(C, __lookup_request(C, tid), from_mds, next_mds,
                              fwd_seq, must_resend, segv, o)

HandleForwardDone(C, r, o) ==
    /\ r # 0 => Asked(C, r, o)
    /\ Install(C)
    /\ UNCHANGED unitvars
    /\ ev' = Event("forward", r, "", C)

HandleForward(tid, from_mds, next_mds, fwd_seq, must_resend, segv, o) ==
    /\ fault = "none"
    /\ Charge(1 + Cost(o.fail))
    /\ segv => ~__have_session(Cur, next_mds)
    \* a rank forwards a request it was sent
    /\ \E r \in Reqs : req[r].tid = tid /\ req[r].sent # {}
    /\ __lookup_request(Cur, tid) # 0 =>
          from_mds \in req[__lookup_request(Cur, tid)].sent
    \* for a tid that is not registered nothing else of the message is used
    /\ __lookup_request(Cur, tid) = 0 =>
          (from_mds = 0 /\ next_mds = 0 /\ fwd_seq = 0 /\ ~must_resend /\ ~segv
           /\ o = DefaultOracle(mdsmap))
    /\ HandleForwardDone(handle_forward(Lock(Cur, "mutex"), tid, from_mds,
                                        next_mds, fwd_seq,
                                        must_resend, segv, o),
                         __lookup_request(Cur, tid), o)
    /\ UNCHANGED <<deadline, pc, ret, hr, um>>

\* ------------------------------------------------------------- session messages
\* s_state < CEPH_MDS_SESSION_OPEN in the order new, opening, open, hung,
\* closing, reconnecting
SessionBelowOpen(st) == st \in {"new", "opening"}

\* s_state >= CEPH_MDS_SESSION_CLOSING
SessionAtLeastClosing(st) == st \in {"closing", "reconnecting"}

request_close_session(C, sid) ==
    Send(C, [type |-> "session_close", mds |-> C.sess[sid].s_mds, sid |-> sid])

__close_session(C, sid) ==
    IF SessionAtLeastClosing(C.sess[sid].s_state) THEN C
    ELSE request_close_session(SetState(C, sid, "closing"), sid)

\* the ops of a session message; "renewcaps_late" is a RENEWCAPS that comes
\* after s_cap_ttl has passed; a RECALL_STATE names a max_caps that is not
\* below s_nr_caps
SessionOps ==
    {"open", "close", "renewcaps", "renewcaps_late", "stale", "recall_state"}

\* remove_session_caps: ceph_remove_cap for every cap of the session
remove_session_caps(C, sid) ==
    [C EXCEPT !.sess[sid].s_caps = [c \in Reqs |-> NoCap]]

\* wake_up_session_caps: wake_up_session_cb for every cap of the session
wake_up_session_caps(C, sid) ==
    [C EXCEPT !.sess[sid].s_caps =
                 [c \in Reqs |-> IF @[c].held /\ @[c].gen # C.sess[sid].s_cap_gen
                                 THEN NoCap ELSE @[c]],
              !.woke = @ \cup {<<sid, c>> : c \in {d \in Reqs :
                                       C.sess[sid].s_caps[d].held}}]

\* renewed_caps: s_cap_ttl = s_renew_requested + m_session_timeout*HZ, a
\* time still to come
renewed_caps(C, sid, is_renew, late) ==
    IF is_renew /\ (C.sess[sid].s_cap_ttl = "zero" \/ late)
    THEN wake_up_session_caps([C EXCEPT !.sess[sid].s_cap_ttl = "set"], sid)
    ELSE [C EXCEPT !.sess[sid].s_cap_ttl = "set"]

\* send_renew_caps: nothing is sent to a rank below reconnect
send_renew_caps(C, sid) ==
    IF ~AtLeastReconnect(ceph_mdsmap_get_state(C.mdsmap, C.sess[sid].s_mds))
    THEN C
    ELSE Send(C, [type |-> "session_renewcaps", mds |-> C.sess[sid].s_mds,
                  sid |-> sid])

\* handle_session, "case CEPH_SESSION_STALE" leaving s_cap_ttl as it is
handle_session_stale_keeps_ttl(C, sid) ==
    send_renew_caps([Unlock(Lock(C, "s_cap_lock"), "s_cap_lock") EXCEPT
                        !.sess[sid].s_cap_gen = @ + 1], sid)

\* handle_session, "case CEPH_SESSION_STALE"
handle_session_stale(C, sid) ==
    send_renew_caps([Unlock(Lock(C, "s_cap_lock"), "s_cap_lock") EXCEPT
                        !.sess[sid].s_cap_gen = @ + 1,
                        !.sess[sid].s_cap_ttl = "zero"], sid)

\* handle_session, "switch (op)"; trim_caps of RECALL_STATE finds nothing
\* to trim
handle_session_op(C, sid, mds, op, os) ==
    CASE op = "open" ->
            IF C.stopping
            THEN __close_session(
                     renewed_caps(SetState(C, sid, "open"), sid, FALSE, FALSE),
                     sid)
            ELSE renewed_caps(SetState(C, sid, "open"), sid, FALSE, FALSE)
      [] op = "renewcaps" -> renewed_caps(C, sid, TRUE, FALSE)
      [] op = "renewcaps_late" -> renewed_caps(C, sid, TRUE, TRUE)
      [] op = "close" ->
            kick_requests(remove_session_caps(unregister_session(C, mds), sid),
                          mds, FALSE, os)
      [] op = "stale" -> handle_session_stale(C, sid)
      [] OTHER -> C

\* handle_session from mutex_lock(&session->s_mutex) on, sid being the session
handle_session_locked(C, sid, mds, op, os) ==
    IF op \in {"open", "close"}
    THEN wake_session_waiting(
             Swap(handle_session_op(
                      IF C.sess[sid].s_state = "hung"
                      THEN SetState(Lock(C, "s_mutex"), sid, "open")
                      ELSE Lock(C, "s_mutex"),
                      sid, mds, op, os),
                  "s_mutex", "mutex"),
             sid, os)
    ELSE handle_session_op(
             IF C.sess[sid].s_state = "hung"
             THEN SetState(Lock(C, "s_mutex"), sid, "open")
             ELSE Lock(C, "s_mutex"),
             sid, mds, op, os)

\* handle_session for a message op from mds
handle_session(C, mds, op, os) ==
    IF __ceph_lookup_mds_session(C, mds) # 0
    THEN handle_session_locked(
             [C EXCEPT !.sess[C.sessions[mds]].s_ttl = TRUE],
             C.sessions[mds], mds, op, os)
    ELSE IF op # "open" THEN C
    ELSE handle_session_locked(register_session(C, mds),
                               register_session(C, mds).sessions[mds], mds, op, os)

\* the session message the rank sends in the regular course: the answer to
\* the open or close request of the session
RegularSession(C, mds, op) ==
    LET sid == __ceph_lookup_mds_session(C, mds)
    IN /\ sid # 0
       /\ \/ op = "open" /\ C.sess[sid].s_state = "opening"
          \/ op = "close" /\ C.sess[sid].s_state = "closing"

HandleSessionDone(C, op, os, cost) ==
    /\ AskedAll(C, os)
    /\ Charge(cost + Fails(os))
    /\ Install(C)
    /\ UNCHANGED unitvars
    /\ ev' = Event("session", 0, op, C)

\* a session message is dispatched from the connection of a session object,
\* so one for this rank was allocated before
HandleSession(mds, op) ==
    /\ fault = "none"
    /\ \E s \in SessIds : sess[s].s_mds = mds
    /\ disturbed + Cost(~RegularSession(Cur, mds, op)) <= MaxDisturb
    /\ \E os \in OracleFns(mdsmap, MaxDisturb - disturbed
                                    - Cost(~RegularSession(Cur, mds, op))) :
          HandleSessionDone(handle_session(Cur, mds, op, os), op, os,
                            Cost(~RegularSession(Cur, mds, op)))
    /\ UNCHANGED <<deadline, pc, ret, hr, um>>

\* ------------------------------------------------------------- reconnect, new map
RECURSIVE ReplayEach(_, _, _, _)
ReplayEach(C, rs, sid, os) ==
    IF rs = <<>> THEN C
    ELSE ReplayEach(send_request(__prepare_send_request(C, Head(rs), os[Head(rs)].fail),
                                 Head(rs), sid, os[Head(rs)].fail),
                    Tail(rs), sid, os)

replay_unsafe_requests(C, sid, os) ==
    Unlock(ReplayEach(Lock(C, "mutex"), C.sess[sid].s_unsafe, sid, os), "mutex")

\* iterate_session_caps(session, encode_caps_cb, ...): every cap of the
\* session is put in the message, "cap->seq = 0", "cap->issue_seq = 0"
encode_caps(C, sid) ==
    [Unlock(Lock(C, "i_lock"), "i_lock") EXCEPT !.sess[sid].s_caps =
        [c \in Reqs |-> IF @[c].held
                        THEN [@[c] EXCEPT !.seq = 0, !.issue_seq = 0]
                        ELSE @[c]]]

\* send_mds_reconnect with the session sid of the rank
send_mds_reconnect_session(C, mds, sid, os) ==
    Lock(Unlock(Unlock(
        wake_session_waiting(
            SetState(Send(encode_caps(
                              Lock(replay_unsafe_requests(
                                       [SetState(Swap(C, "mutex", "s_mutex"),
                                                 sid, "reconnecting") EXCEPT
                                           !.sess[sid].s_seq = 0], sid, os),
                                   "snap_rwsem"),
                              sid),
                          [type |-> "reconnect", mds |-> mds, sid |-> sid]),
                     sid, "open"),
            sid, os),
        "snap_rwsem"), "s_mutex"), "mutex")

\* send_mds_reconnect.  Without a session the "short reconnect" is handed to
\* ceph_con_send(&session->s_con, ...) with session == NULL.
send_mds_reconnect(C, mds, os) ==
    IF C.fault # "none" THEN C
    ELSE IF __ceph_lookup_mds_session(C, mds) = 0 THEN Oops(C)
    ELSE send_mds_reconnect_session(C, mds, C.sessions[mds], os)

\* check_new_map closing out the session of a rank with a new address
\* whatever the state of the session
check_new_map_moved_any(C, i, s, os) ==
    kick_requests(unregister_session(wake_session_waiting(C, s, os), i),
                  i, TRUE, os)

\* check_new_map, "if (memcmp(ceph_mdsmap_get_addr(oldmap, i), ...))": the
\* rank has a new address; s is the session found for it
check_new_map_moved(C, i, s, os) ==
    kick_requests(IF C.sess[s].s_state = "opening"
                  THEN unregister_session(wake_session_waiting(C, s, os), i)
                  ELSE C,
                  i, TRUE, os)

\* ceph_kick_flushing_caps(mdsc, s): s is the session check_new_map read
\* from mdsc->sessions[i] at the top of the loop body
ceph_kick_flushing_caps(C, s) ==
    IF C.fault # "none" THEN C
    ELSE [C EXCEPT !.kickcaps = @ \cup
                      {[sid |-> s, listed |-> \E m \in Ranks : C.sessions[m] = s]}]

\* check_new_map, the rest of the loop body for a rank whose state or
\* address changed
check_new_map_state(C, i, s, oldstate, newstate, os) ==
    IF ~AtLeastActive(oldstate) /\ AtLeastActive(newstate)
    THEN ceph_kick_flushing_caps(
             kick_requests(IF newstate = "reconnect"
                           THEN send_mds_reconnect(C, i, os)
                           ELSE C, i, TRUE, os),
             s)
    ELSE IF newstate = "reconnect" THEN send_mds_reconnect(C, i, os)
    ELSE C

RECURSIVE CheckRank(_, _, _, _, _)
\* the loop of check_new_map from rank i on
CheckRank(C, i, new, old, os) ==
    IF ~(i < old.max_mds /\ i < C.max_sessions) \/ C.fault # "none" THEN C
    ELSE IF C.sessions[i] = 0 THEN CheckRank(C, i + 1, new, old, os)
    ELSE IF old.addr[i] # new.addr[i]
    THEN CheckRank(check_new_map_state(check_new_map_moved(C, i, C.sessions[i], os),
                                       i, C.sessions[i],
                                       ceph_mdsmap_get_state(old, i),
                                       ceph_mdsmap_get_state(new, i), os),
                   i + 1, new, old, os)
    ELSE IF ceph_mdsmap_get_state(old, i) = ceph_mdsmap_get_state(new, i)
    THEN CheckRank(C, i + 1, new, old, os)
    ELSE CheckRank(check_new_map_state(C, i, C.sessions[i],
                                       ceph_mdsmap_get_state(old, i),
                                       ceph_mdsmap_get_state(new, i), os),
                   i + 1, new, old, os)

check_new_map(C, new, old, os) == CheckRank(C, 0, new, old, os)

\* ceph_mdsc_handle_map
handle_map(C, new, bad, os) ==
    IF new.epoch <= C.mdsmap.epoch THEN C
    ELSE IF bad THEN C
    ELSE wake_waiting_for_map(
             check_new_map([Lock(C, "mutex") EXCEPT !.mdsmap = new],
                           new, C.mdsmap, os), os)

\* the maps the monitor can send after map old: the first map has every
\* rank active, or every rank but the last; a later one changes nothing, or
\* changes the state of one rank, or has one rank come up (reconnect,
\* active) at a new address
NewMaps(old) ==
    IF old.max_mds = 0
    THEN {[epoch |-> old.epoch + 1, max_mds |-> MaxMds,
           state |-> [m \in Ranks |-> IF m = MaxMds - 1 THEN st ELSE "active"],
           addr |-> [m \in Ranks |-> 0]] : st \in {"active", "down"}}
    ELSE {[old EXCEPT !.epoch = @ + 1]} \cup
         {[old EXCEPT !.epoch = @ + 1, !.state[m] = st] :
            m \in Ranks, st \in {"down", "reconnect", "active"}} \cup
         {[old EXCEPT !.epoch = @ + 1, !.state[m] = st, !.addr[m] = 1 - @] :
            m \in Ranks, st \in {"reconnect", "active"}}

HandleMapDone(C, os, cost) ==
    /\ AskedAll(C, os)
    /\ Charge(cost + Fails(os))
    /\ Install(C)
    /\ UNCHANGED unitvars
    /\ ev' = Event("map", 0, "new", C)

HandleMap(new) ==
    /\ fault = "none"
    /\ new.epoch <= MaxEpoch
    /\ disturbed + Cost(mdsmap.max_mds # 0) <= MaxDisturb
    /\ \E os \in OracleFns(new, MaxDisturb - disturbed - Cost(mdsmap.max_mds # 0)) :
          HandleMapDone(handle_map(Cur, new, FALSE, os), os,
                        Cost(mdsmap.max_mds # 0))
    /\ UNCHANGED <<deadline, pc, ret, hr, um>>

\* the maps of an epoch that is not newer than the one of map old
OldMaps(old) == {[n EXCEPT !.epoch = e] : n \in NewMaps(old), e \in 0..old.epoch}

\* a map that is not newer than the one installed
HandleOldMap(new) ==
    /\ fault = "none"
    /\ Charge(1)
    /\ Install(handle_map(Cur, new, FALSE, [r \in Reqs |-> DefaultOracle(mdsmap)]))
    /\ UNCHANGED unitvars
    /\ ev' = Event("map", 0, "old",
                   handle_map(Cur, new, FALSE, [r \in Reqs |-> DefaultOracle(mdsmap)]))
    /\ UNCHANGED <<deadline, pc, ret, hr, um>>

\* a newer map that ceph_mdsmap_decode fails on, "if (IS_ERR(newmap))"
HandleBadMap(new) ==
    /\ fault = "none"
    /\ new.epoch <= MaxEpoch
    /\ Charge(1)
    /\ Install(handle_map(Cur, new, TRUE, [r \in Reqs |-> DefaultOracle(mdsmap)]))
    /\ UNCHANGED unitvars
    /\ ev' = Event("map", 0, "bad",
                   handle_map(Cur, new, TRUE, [r \in Reqs |-> DefaultOracle(mdsmap)]))
    /\ UNCHANGED <<deadline, pc, ret, hr, um>>

\* ------------------------------------------------------------- the tick
\* exp[i]: jiffies is past the s_ttl of the session of rank i
TtlExpired(C, sid, exp) == C.sess[sid].s_ttl /\ exp[C.sess[sid].s_mds]

\* delayed_work, the loop body from "if (s->s_state < CEPH_MDS_SESSION_OPEN)":
\* the renewal or keepalive that goes to a session that is up
delayed_work_renew(C, sid) ==
    IF SessionBelowOpen(C.sess[sid].s_state) THEN C
    ELSE Send(C, [type |-> "keepalive", mds |-> C.sess[sid].s_mds, sid |-> sid])

\* delayed_work marking a session past its ttl hung whatever its state
delayed_work_session_any(C, sid, exp) ==
    IF C.sess[sid].s_state = "closing" THEN request_close_session(C, sid)
    ELSE delayed_work_renew(
             IF TtlExpired(C, sid, exp)
             THEN SetState(C, sid, "hung") ELSE C,
             sid)

\* delayed_work, the loop body for the session sid
delayed_work_session(C, sid, exp) ==
    IF C.sess[sid].s_state = "closing" THEN request_close_session(C, sid)
    ELSE delayed_work_renew(
             IF TtlExpired(C, sid, exp) /\ C.sess[sid].s_state = "open"
             THEN SetState(C, sid, "hung") ELSE C,
             sid)

RECURSIVE TickEach(_, _, _)
TickEach(C, i, exp) ==
    IF ~(i < C.max_sessions) THEN C
    ELSE TickEach(IF C.sessions[i] = 0 THEN C
                  ELSE Swap(delayed_work_session(Swap(C, "mutex", "s_mutex"),
                                                 C.sessions[i], exp),
                            "s_mutex", "mutex"),
                  i + 1, exp)

\* want_map was set in the loop
WantMap(C, exp) ==
    \E i \in Ranks : /\ __have_session(C, i)
                     /\ C.sess[C.sessions[i]].s_state # "closing"
                     /\ TtlExpired(C, C.sessions[i], exp)

\* delayed_work
delayed_work(C, exp) ==
    IF WantMap(C, exp)
    THEN Send(TickEach(C, 0, exp), [type |-> "want_map", epoch |-> C.mdsmap.epoch + 1])
    ELSE TickEach(C, 0, exp)

TickDone(C) ==
    /\ Install(C)
    /\ UNCHANGED unitvars
    /\ ev' = Event("tick", 0, "", C)

\* the tick works on the sessions there are; only a session with a ttl can
\* be past it
Tick(exp) ==
    /\ fault = "none"
    /\ Charge(1)
    /\ \E i \in Ranks : __have_session(Cur, i)
    /\ \A i \in Ranks : exp[i] => /\ __have_session(Cur, i)
                                  /\ sess[sessions[i]].s_ttl
                                  /\ sess[sessions[i]].s_state # "closing"
    /\ TickDone(delayed_work(Lock(Cur, "mutex"), exp))
    /\ UNCHANGED <<deadline, pc, ret, hr, um>>

\* ------------------------------------------------------------- unmount
\* ceph_mdsc_pre_umount up to the wait in wait_requests
PreUmount ==
    /\ fault = "none"
    /\ Charge(1)
    /\ um = "mounted"
    /\ stopping' = TRUE
    /\ um' = IF request_tree = {} THEN "pre_done" ELSE "wait"
    /\ UNCHANGED unitvars
    /\ ev' = Quiet("pre_umount", 0, "")
    /\ UNCHANGED <<last_tid, request_tree, req, sessions, max_sessions, sess, nsess,
                   waiting_for_map, mdsmap, deadline, pc, ret, hr, oldest_sent,
                   fault>>

\* wait_requests after the wait: the requests left in the tree are deleted
wait_requests_teardown(C) == [C EXCEPT !.tree = {}]

WaitRequestsTeardown ==
    /\ fault = "none"
    /\ um = "wait"
    /\ Install(wait_requests_teardown(Cur))
    /\ UNCHANGED unitvars
    /\ ev' = Quiet("wait_requests", 0, "")
    /\ um' = "pre_done"
    /\ UNCHANGED <<deadline, pc, ret, hr, disturbed>>

RECURSIVE CloseEach(_, _)
\* ceph_mdsc_close_sessions, "close each session"
CloseEach(C, i) ==
    IF ~(i < C.max_sessions) THEN C
    ELSE CloseEach(IF C.sessions[i] = 0 THEN C
                   ELSE Swap(__close_session(Swap(C, "mutex", "s_mutex"),
                                             C.sessions[i]),
                             "s_mutex", "mutex"),
                   i + 1)

CloseSessionsDone(C) ==
    /\ Install(C)
    /\ UNCHANGED unitvars
    /\ ev' = Event("close_sessions", 0, "", C)

\* ceph_mdsc_close_sessions: one round of the closing loop
CloseSessions ==
    /\ fault = "none"
    /\ um = "pre_done"
    /\ CloseSessionsDone(CloseEach(Lock(Cur, "mutex"), 0))
    /\ um' = "closing"
    /\ UNCHANGED <<deadline, pc, ret, hr, disturbed>>

\* ceph_mdsc_close_sessions: "tear down remaining sessions"
close_sessions_teardown(C) ==
    [C EXCEPT !.sessions = [m \in Slots |-> 0],
              !.sess = [s \in SessIds |->
                           IF \E m \in Slots : C.sessions[m] = s
                           THEN [@[s] EXCEPT !.s_caps = [c \in Reqs |-> NoCap]]
                           ELSE @[s]]]

CloseSessionsTeardown ==
    /\ fault = "none"
    /\ um = "closing"
    /\ Install(close_sessions_teardown(Cur))
    /\ UNCHANGED unitvars
    /\ ev' = Quiet("close_teardown", 0, "")
    /\ um' = "closed"
    /\ UNCHANGED <<deadline, pc, ret, hr, disturbed>>

\* ------------------------------------------------------------- specification
\* ceph_mdsc_init
\* ------------------------------------------------------------- inode caps
\* the bits of a cap mask; a mask is the set of its bits
CapBits == {"wr", "buffer"}
CapMasks == SUBSET CapBits
CapSeqs == 0..1

\* ci->i_caps[i] of an mds without a cap on the inode
NoInodeCap == [has |-> FALSE, caps |-> {}, seq |-> 0]

\* the inode after ceph_fill_inode: i_nr_caps = 0, nothing dirty
NewInode == [i_caps |-> [m \in Ranks |-> NoInodeCap], i_dirty_caps |-> {}]

NoGrant == [kind |-> "none", mds |-> 0, had |-> {}, newcaps |-> {},
            dirty |-> {}, ret |-> 0, flush |-> {}]

\* ceph_get_caps: the caps held from all mds
ceph_get_caps(I) == UNION {I.i_caps[m].caps : m \in Ranks}

\* get_cap_for_mds: the cap of mds, has = FALSE for the NULL pointer
get_cap_for_mds(I, mds) == I.i_caps[mds]

\* ceph_add_cap with room in i_caps
ceph_add_inode_cap(I, mds, cap, seq) ==
    [I EXCEPT !.i_caps[mds] =
        [has |-> TRUE, caps |-> (IF @.has THEN @.caps ELSE {}) \cup cap,
         seq |-> seq]]

\* ceph_handle_cap_grant: the inode it leaves, the value it returns (1: send
\* the message back to the mds) and the bits it started a flush of
ceph_handle_cap_grant(I, mds, newcaps, seq, wanted) ==
    IF ~wanted
    THEN [ci |-> I, kind |-> "unwanted", ret |-> 1, flush |-> {}]
    ELSE IF ~get_cap_for_mds(I, mds).has
    THEN [ci |-> ceph_add_inode_cap(I, mds, newcaps, seq), kind |-> "new",
          ret |-> 0, flush |-> {}]
    ELSE IF get_cap_for_mds(I, mds).caps \ newcaps # {}
    THEN [ci |-> [I EXCEPT !.i_caps[mds].caps = newcaps], kind |-> "revoke",
          ret |-> 1, flush |-> {}]
    ELSE [ci |-> [I EXCEPT !.i_caps[mds].caps = newcaps], kind |-> "grant",
          ret |-> 0, flush |-> {}]

\* a cap message of mds for the inode arrives
HandleCapGrant(mds, newcaps, seq, wanted) ==
    /\ ci' = ceph_handle_cap_grant(ci, mds, newcaps, seq, wanted).ci
    /\ grant' = [kind |-> ceph_handle_cap_grant(ci, mds, newcaps, seq, wanted).kind,
                 mds |-> mds, had |-> ci.i_caps[mds].caps, newcaps |-> newcaps,
                 dirty |-> ci.i_dirty_caps,
                 ret |-> ceph_handle_cap_grant(ci, mds, newcaps, seq, wanted).ret,
                 flush |-> ceph_handle_cap_grant(ci, mds, newcaps, seq, wanted).flush]
    /\ UNCHANGED <<mdsvars, tab, rel, rc, rn, ls, lk>>

\* the client changes the inode under caps it holds: the bits become dirty
MarkDirty(bits) ==
    /\ bits # {}
    /\ bits \subseteq ceph_get_caps(ci)
    /\ ~(bits \subseteq ci.i_dirty_caps)
    /\ ci' = [ci EXCEPT !.i_dirty_caps = @ \cup bits]
    /\ UNCHANGED <<grant, mdsvars, tab, rel, rc, rn, ls, lk>>

\* ------------------------------------------------------------- the table
\* the ranks and the slots of the session table of the wide model
WideRanks == 0..(MaxWideMds - 1)
WideSlots == 0..(Pow2Ceil(1, MaxWideMds) - 1)

\* ceph_mdsc_init: mdsc->sessions = NULL, max_sessions = 0; last is the last
\* call on the table: the rank, the capacity before, what it returned
NewTable ==
    [max_sessions |-> 0, sessions |-> [i \in WideSlots |-> 0], nsess |-> 0,
     fault |-> "none",
     last |-> [kind |-> "none", mds |-> 0, from |-> 0, ret |-> "none"]]

\* kcalloc(newmax, ...) and memcpy(sa, mdsc->sessions, max_sessions * ...):
\* the new array holds the old slots and NULL in the others
GrownSessions(T) ==
    [i \in WideSlots |-> IF i < T.max_sessions THEN T.sessions[i] ELSE 0]

\* register_session on the table; alloc says which allocation fails:
\* "s" the kzalloc of the session (s = NULL is written through), "sa" the
\* kcalloc of the array (ERR_PTR(-ENOMEM) is returned)
register_session_table(T, mds, alloc) ==
    IF alloc = "s"
    THEN [T EXCEPT !.fault = "oops",
                   !.last = [kind |-> "register", mds |-> mds,
                             from |-> T.max_sessions, ret |-> "oops"]]
    ELSE IF mds >= T.max_sessions /\ alloc = "sa"
    THEN [T EXCEPT !.last = [kind |-> "register", mds |-> mds,
                             from |-> T.max_sessions, ret |-> "ENOMEM"]]
    ELSE [T EXCEPT !.nsess = @ + 1,
                   !.max_sessions = IF mds >= @ THEN Pow2Ceil(1, mds + 1) ELSE @,
                   !.sessions = [(IF mds >= T.max_sessions THEN GrownSessions(T)
                                  ELSE @) EXCEPT ![mds] = T.nsess + 1],
                   !.last = [kind |-> "register", mds |-> mds,
                             from |-> T.max_sessions, ret |-> "ok"]]

\* unregister_session on the table
unregister_session_table(T, mds) ==
    [T EXCEPT !.sessions[mds] = 0,
              !.last = [kind |-> "unregister", mds |-> mds,
                        from |-> T.max_sessions, ret |-> "ok"]]

\* a caller that found no session for the rank registers one
RegisterSession(mds, alloc) ==
    /\ tab.fault = "none"
    /\ tab.nsess < MaxTableSess
    /\ ~(mds < tab.max_sessions /\ tab.sessions[mds] # 0)
    /\ tab' = register_session_table(tab, mds, alloc)
    /\ UNCHANGED <<mdsvars, capvars, rel, rc, rn, ls, lk>>

\* the session of the rank is closed
UnregisterSession(mds) ==
    /\ tab.fault = "none"
    /\ mds < tab.max_sessions /\ tab.sessions[mds] # 0
    /\ tab' = unregister_session_table(tab, mds)
    /\ UNCHANGED <<mdsvars, capvars, rel, rc, rn, ls, lk>>

\* ------------------------------------------------------------- cap releases
\* the session after register_session: s_nr_caps = 0, s_num_cap_releases = 0,
\* s_cap_releases and s_cap_releases_done empty. A message is written as its
\* head->num, the releases it holds; safety is
\* mount_args.cap_release_safety; last is the last handler and what its
\* add_cap_releases returned
NewReleases(safety) ==
    [s_nr_caps |-> 0, s_num_cap_releases |-> 0, s_cap_releases |-> <<>>,
     s_cap_releases_done |-> <<>>, safety |-> safety, sent |-> 0,
     fault |-> "none", last |-> [kind |-> "none", ret |-> 0]]

\* add_cap_releases without "extra += CEPH_CAPS_PER_RELEASE - head->num"
ExtraFlat(R) == R.safety

\* add_cap_releases, extra = -1, up to the loop: the slots wanted past
\* s_nr_caps
Extra(R) ==
    IF R.s_cap_releases # <<>>
    THEN R.safety + CapsPerRelease - Head(R.s_cap_releases)
    ELSE R.safety

RECURSIVE AddReleaseMsgs(_, _, _)
\* the loop of add_cap_releases; nomem: ceph_msg_new fails, and the
\* ERR_PTR it returns passes the test "if (!msg)" and is written through
AddReleaseMsgs(R, extra, nomem) ==
    IF R.s_num_cap_releases >= R.s_nr_caps + extra THEN R
    ELSE IF nomem THEN [R EXCEPT !.fault = "oops"]
    ELSE AddReleaseMsgs(
             [R EXCEPT !.s_cap_releases = <<0>> \o @,
                       !.s_num_cap_releases = @ + CapsPerRelease],
             extra, nomem)

\* add_cap_releases after the loop: a first message that holds releases
\* moves to s_cap_releases_done
QueueNonFull(R) ==
    IF R.fault # "none" THEN R
    ELSE IF R.s_cap_releases # <<>> /\ Head(R.s_cap_releases) # 0
    THEN [R EXCEPT !.s_cap_releases = Tail(@),
                   !.s_cap_releases_done = Append(@, Head(R.s_cap_releases)),
                   !.s_num_cap_releases =
                       @ - (CapsPerRelease - Head(R.s_cap_releases))]
    ELSE R

add_cap_releases(R, nomem) ==
    QueueNonFull(AddReleaseMsgs(R, Extra(R), nomem))

\* send_cap_releases: every message of s_cap_releases_done goes out
send_cap_releases(R) ==
    IF R.fault # "none" THEN R
    ELSE [R EXCEPT !.s_cap_releases_done = <<>>,
                   !.sent = IF @ + Len(R.s_cap_releases_done) > MaxRelSent
                            THEN MaxRelSent ELSE @ + Len(R.s_cap_releases_done)]

\* the reply grants n caps on the session
AddCaps(R, n) == [R EXCEPT !.s_nr_caps = @ + n]

\* a cap of the session is dropped: its release takes a slot of the first
\* message, which moves to s_cap_releases_done when it is full
RemoveCapRelease(R) ==
    LET num == Head(R.s_cap_releases) + 1
    IN [R EXCEPT !.s_nr_caps = @ - 1,
                 !.s_num_cap_releases = @ - 1,
                 !.s_cap_releases =
                     IF num = CapsPerRelease THEN Tail(@) ELSE <<num>> \o Tail(@),
                 !.s_cap_releases_done =
                     IF num = CapsPerRelease THEN Append(@, num) ELSE @]

\* handle_reply from the parse on: the caps of the reply, add_cap_releases
ReplyReleases(n, nomem) ==
    /\ rel.fault = "none"
    /\ rel.s_nr_caps + n <= MaxRelCaps
    /\ Len(rel.s_cap_releases_done) < MaxRelDone
    /\ rel' = [add_cap_releases(AddCaps(rel, n), nomem) EXCEPT
                  !.last = [kind |-> "add", ret |-> 0]]
    /\ UNCHANGED <<mdsvars, capvars, tab, rc, rn, ls, lk>>

\* delayed_work on the session: add_cap_releases, send_cap_releases
TickReleases(nomem) ==
    /\ rel.fault = "none"
    /\ rel' = [send_cap_releases(add_cap_releases(rel, nomem)) EXCEPT
                  !.last = [kind |-> "send", ret |-> 0]]
    /\ UNCHANGED <<mdsvars, capvars, tab, rc, rn, ls, lk>>

\* a cap message grants a cap on the session outside a reply
GrantCap ==
    /\ rel.fault = "none"
    /\ rel.s_nr_caps < MaxRelCaps
    /\ rel' = [AddCaps(rel, 1) EXCEPT !.last = [kind |-> "grant", ret |-> 0]]
    /\ UNCHANGED <<mdsvars, capvars, tab, rc, rn, ls, lk>>

\* the client drops a cap of the session
RemoveCap ==
    /\ rel.fault = "none"
    /\ rel.s_nr_caps > 0
    /\ rel.s_cap_releases # <<>>
    /\ Len(rel.s_cap_releases_done) < MaxRelDone
    /\ rel' = [RemoveCapRelease(rel) EXCEPT !.last = [kind |-> "remove", ret |-> 0]]
    /\ UNCHANGED <<mdsvars, capvars, tab, rc, rn, ls, lk>>

\* ------------------------------------------------------------- reconnect buffer
\* send_mds_reconnect before "retry:" for a session of nr caps, each with a
\* path of pathlen bytes, and a client with realms snap realms:
\* len = 4 + 1 + s_nr_caps * (100 + sizeof(struct ceph_mds_cap_reconnect))
NewReconnect(nr, realms, pathlen) ==
    [s_nr_caps |-> nr, realms |-> realms, pathlen |-> pathlen,
     len |-> 4 + 1 + nr * (100 + CapRecordSize),
     num_caps |-> 0, num_realms |-> 0, tries |-> 0, status |-> "retry"]

\* encode_caps_cb: the bytes one cap takes: the ino, the path as a string,
\* the record
CapBytes(pathlen) == 8 + (pathlen + 4) + CapRecordSize

Min(a, b) == IF a < b THEN a ELSE b

\* "needmore:": num_caps += num_realms; newlen = len * ((100 *
\* (s_nr_caps+3)) / (num_caps + 1)) / 100; goto retry
needmore(R) ==
    [R EXCEPT !.num_caps = @ + R.num_realms,
              !.len = (@ * ((100 * (R.s_nr_caps + 3))
                              \div (R.num_caps + R.num_realms + 1))) \div 100,
              !.tries = @ + 1]

\* the snap realms part of one pass: the count, then one record per realm
encode_realms(R, room) ==
    IF room < 4 THEN needmore(R)
    ELSE IF Min(R.realms, (room - 4) \div RealmRecordSize) < R.realms
    THEN needmore([R EXCEPT !.num_realms =
                      Min(R.realms, (room - 4) \div RealmRecordSize)])
    ELSE [R EXCEPT !.num_realms = R.realms, !.status = "sent"]

\* one pass from "retry:": the message of len bytes, the head, the caps (as
\* many as fit), the realms; nomem: ceph_msg_new fails
encode_reconnect(R, nomem) ==
    IF nomem THEN [R EXCEPT !.status = "enomem"]
    ELSE IF R.len < 4 + 1 THEN [R EXCEPT !.status = "overrun"]
    ELSE IF Min(R.s_nr_caps, (R.len - 5) \div CapBytes(R.pathlen)) < R.s_nr_caps
    THEN needmore([R EXCEPT !.num_caps =
                      Min(R.s_nr_caps, (R.len - 5) \div CapBytes(R.pathlen))])
    ELSE encode_realms([R EXCEPT !.num_caps = R.s_nr_caps],
                       R.len - 5 - R.s_nr_caps * CapBytes(R.pathlen))

\* send_mds_reconnect goes through "retry:" once
ReconnectPass(nomem) ==
    /\ rc.status = "retry"
    /\ rc.tries < MaxTries
    /\ rc' = encode_reconnect(rc, nomem)
    /\ UNCHANGED <<mdsvars, capvars, tab, rel, rn, ls, lk>>

\* ------------------------------------------------------------- the start
\* ---------------------------------------------------------------------
\* renewed_caps and send_renew_caps with the clock: jiffies, s_cap_ttl and
\* s_renew_requested are unsigned longs of MaxJiffies values that wrap

MaxJiffies == 8

Jiffies == 0..(MaxJiffies - 1)

\* m_session_timeout*HZ of the mds map
SessionTimeouts == {1, 2, 3}

\* time_after_eq(a, b): (long)(a) - (long)(b) >= 0
time_after_eq(a, b) == ((a - b) % MaxJiffies) < (MaxJiffies \div 2)

\* time_before(a, b): (long)(a) - (long)(b) < 0
time_before(a, b) == ~time_after_eq(a, b)

\* one session at jiffies 0 after register_session: kzalloc leaves
\* s_cap_ttl and s_renew_requested 0; fresh[i] is cap->gen == s_cap_gen
NewRenew(timeout, caps) ==
    [jiffies |-> 0, s_cap_ttl |-> 0, s_renew_requested |-> 0,
     timeout |-> timeout, s_caps |-> caps, fresh |-> caps, woke |-> {},
     sent |-> FALSE, op |-> "none"]

\* wake_up_session_caps: a cap of an older gen is removed, every i_cap_wq
\* is woken
wake_up_session_caps_at(R) ==
    [R EXCEPT !.s_caps = @ \cap R.fresh, !.fresh = @ \cap R.s_caps,
              !.woke = R.s_caps]

\* renewed_caps waking whenever the session was stale
renewed_caps_was_stale(R, is_renew) ==
    IF is_renew /\ (R.s_cap_ttl = 0 \/ time_after_eq(R.jiffies, R.s_cap_ttl))
    THEN wake_up_session_caps_at(
             [R EXCEPT !.s_cap_ttl = (R.s_renew_requested + R.timeout) % MaxJiffies])
    ELSE [R EXCEPT !.s_cap_ttl = (R.s_renew_requested + R.timeout) % MaxJiffies]

\* renewed_caps
renewed_caps_at(R, is_renew) ==
    IF /\ is_renew /\ (R.s_cap_ttl = 0 \/ time_after_eq(R.jiffies, R.s_cap_ttl))
       /\ time_before(R.jiffies, (R.s_renew_requested + R.timeout) % MaxJiffies)
    THEN wake_up_session_caps_at(
             [R EXCEPT !.s_cap_ttl = (R.s_renew_requested + R.timeout) % MaxJiffies])
    ELSE [R EXCEPT !.s_cap_ttl = (R.s_renew_requested + R.timeout) % MaxJiffies]

\* send_renew_caps; up: the rank is at least in reconnect; nomem:
\* create_session_msg fails after s_renew_requested is set
send_renew_caps_at(R, up, nomem) ==
    IF ~up THEN R
    ELSE [R EXCEPT !.s_renew_requested = R.jiffies, !.sent = ~nomem]

\* the timer interrupt
Jiffy ==
    /\ rn' = [rn EXCEPT !.jiffies = (@ + 1) % MaxJiffies, !.woke = {},
                        !.sent = FALSE, !.op = "jiffy"]
    /\ UNCHANGED <<mdsvars, capvars, tab, rel, rc, ls, lk>>

\* delayed_work: send_renew_caps for the session
RequestRenew(up, nomem) ==
    /\ rn' = [send_renew_caps_at([rn EXCEPT !.woke = {}, !.sent = FALSE],
                                 up, nomem) EXCEPT !.op = "request"]
    /\ UNCHANGED <<mdsvars, capvars, tab, rel, rc, ls, lk>>

\* handle_session: case CEPH_SESSION_RENEWCAPS
HandleRenewCaps ==
    /\ rn' = [renewed_caps_at([rn EXCEPT !.woke = {}, !.sent = FALSE], TRUE)
                 EXCEPT !.op = "renewcaps"]
    /\ UNCHANGED <<mdsvars, capvars, tab, rel, rc, ls, lk>>

\* handle_session: case CEPH_SESSION_OPEN
HandleOpen ==
    /\ rn' = [renewed_caps_at([rn EXCEPT !.woke = {}, !.sent = FALSE], FALSE)
                 EXCEPT !.op = "open"]
    /\ UNCHANGED <<mdsvars, capvars, tab, rel, rc, ls, lk>>

\* handle_session: case CEPH_SESSION_STALE
HandleStale(up, nomem) ==
    /\ rn' = [send_renew_caps_at([rn EXCEPT !.woke = {}, !.sent = FALSE,
                                            !.s_cap_ttl = 0, !.fresh = {}],
                                 up, nomem) EXCEPT !.op = "stale"]
    /\ UNCHANGED <<mdsvars, capvars, tab, rel, rc, ls, lk>>

\* ---------------------------------------------------------------------
\* dentry leases: handle_lease and ceph_mdsc_lease_release over the session
\* table and the ceph_dentry_info of each dentry

MaxLeaseSess == 2

Dentries == {"d1", "d2"}

LeaseSessIds == 1..MaxLeaseSess

\* what a lease message names: an inode ceph_find_inode does not find, an
\* inode with no alias, a name d_lookup does not find, or a dentry
LeaseTargets == {"noinode", "noparent", "nodentry"} \cup Dentries

LeaseActions == {"revoke", "renew"}

\* ceph_dentry_info with no lease
NoLease ==
    [lease_session |-> 0, lease_seq |-> 0, lease_renew_from |-> FALSE,
     lease_renew_after |-> FALSE]

\* no session, no lease
NewLeases ==
    [sessions |-> [m \in Ranks |-> 0], s_mds |-> [i \in LeaseSessIds |-> 0],
     nsess |-> 0, di |-> [d \in Dentries |-> NoLease], out |-> <<>>,
     op |-> [kind |-> "none", mds |-> 0, action |-> "none",
             target |-> "noinode", bad |-> FALSE]]

\* __ceph_mdsc_drop_dentry_lease
__ceph_mdsc_drop_dentry_lease(L, d) ==
    [L EXCEPT !.di[d].lease_session = 0]

\* ceph_mdsc_lease_send_msg
ceph_mdsc_lease_send_msg(L, sid, action, seq, nomem) ==
    IF nomem THEN L
    ELSE [L EXCEPT !.out = Append(@, [action |-> action, sid |-> sid,
                                      mds |-> L.s_mds[sid], seq |-> seq])]

\* handle_lease, "switch (h->action)" keeping the lease on REVOKE
handle_lease_dentry_keep(L, sid, d, action, seq, fresh) ==
    CASE action = "revoke" -> L
      [] action = "renew" ->
            IF /\ L.di[d].lease_session = sid /\ fresh
               /\ L.di[d].lease_renew_from /\ ~L.di[d].lease_renew_after
            THEN [L EXCEPT !.di[d].lease_seq = seq,
                           !.di[d].lease_renew_after = TRUE,
                           !.di[d].lease_renew_from = FALSE]
            ELSE L

\* handle_lease, "switch (h->action)"; fresh: lease_gen == s_cap_gen
handle_lease_dentry(L, sid, d, action, seq, fresh) ==
    CASE action = "revoke" ->
            IF L.di[d].lease_session = sid
            THEN __ceph_mdsc_drop_dentry_lease(L, d)
            ELSE L
      [] action = "renew" ->
            IF /\ L.di[d].lease_session = sid /\ fresh
               /\ L.di[d].lease_renew_from /\ ~L.di[d].lease_renew_after
            THEN [L EXCEPT !.di[d].lease_seq = seq,
                           !.di[d].lease_renew_after = TRUE,
                           !.di[d].lease_renew_from = FALSE]
            ELSE L

\* the seq of the REVOKE_ACK: h->seq, overwritten with lease_seq when the
\* lease is this session's
AckSeq(L, sid, target, action, seq) ==
    IF /\ target \in Dentries /\ action = "revoke"
       /\ L.di[target].lease_session = sid
    THEN L.di[target].lease_seq ELSE seq

\* handle_lease: "release:" is reached with no inode, no parent or no
\* dentry whatever the action, and with release = 1 after a REVOKE
handle_lease(L, mds, action, target, seq, fresh, bad) ==
    IF bad \/ L.sessions[mds] = 0 THEN L
    ELSE IF target \in Dentries /\ action # "revoke"
    THEN handle_lease_dentry(L, L.sessions[mds], target, action, seq, fresh)
    ELSE ceph_mdsc_lease_send_msg(
             IF target \in Dentries
             THEN handle_lease_dentry(L, L.sessions[mds], target, action, seq, fresh)
             ELSE L,
             L.sessions[mds], "revoke_ack",
             AckSeq(L, L.sessions[mds], target, action, seq), FALSE)

\* ceph_mdsc_lease_release; valid: lease_gen is the session's s_cap_gen and
\* d_time is still to come
ceph_mdsc_lease_release(L, d, valid, nomem) ==
    IF L.di[d].lease_session = 0 \/ ~valid THEN L
    ELSE ceph_mdsc_lease_send_msg(__ceph_mdsc_drop_dentry_lease(L, d),
                                  L.di[d].lease_session, "release",
                                  L.di[d].lease_seq, nomem)

\* a LEASE message from rank mds
HandleLease(mds, action, target, seq, fresh, bad) ==
    /\ ls' = [handle_lease([ls EXCEPT !.out = <<>>], mds, action, target, seq,
                           fresh, bad)
                 EXCEPT !.op = [kind |-> "lease", mds |-> mds, action |-> action,
                                target |-> target, bad |-> bad]]
    /\ UNCHANGED <<mdsvars, capvars, tab, rel, rc, rn, lk>>

\* a caller about to invalidate dentry d
LeaseRelease(d, valid, nomem) ==
    /\ ls' = [ceph_mdsc_lease_release([ls EXCEPT !.out = <<>>], d, valid, nomem)
                 EXCEPT !.op = NewLeases.op]
    /\ UNCHANGED <<mdsvars, capvars, tab, rel, rc, rn, lk>>

\* a reply trace giving dentry d a lease from the session of rank mds
TakeLease(d, mds, seq) ==
    /\ ls.sessions[mds] # 0
    /\ ls' = [ls EXCEPT !.di[d] = [lease_session |-> ls.sessions[mds],
                                   lease_seq |-> seq,
                                   lease_renew_from |-> FALSE,
                                   lease_renew_after |-> FALSE],
                        !.out = <<>>,
                        !.op = NewLeases.op]
    /\ UNCHANGED <<mdsvars, capvars, tab, rel, rc, rn, lk>>

\* dentry revalidation asking for a renewal of the lease of d
StartRenew(d) ==
    /\ ls.di[d].lease_session # 0
    /\ ls' = [ls EXCEPT !.di[d].lease_renew_from = TRUE,
                        !.di[d].lease_renew_after = FALSE,
                        !.out = <<>>,
                        !.op = NewLeases.op]
    /\ UNCHANGED <<mdsvars, capvars, tab, rel, rc, rn, lk>>

\* register_session for rank mds
LeaseRegister(mds) ==
    /\ ls.sessions[mds] = 0
    /\ ls.nsess < MaxLeaseSess
    /\ ls' = [ls EXCEPT !.nsess = @ + 1, !.sessions[mds] = ls.nsess + 1,
                        !.s_mds[ls.nsess + 1] = mds, !.out = <<>>,
                        !.op = NewLeases.op]
    /\ UNCHANGED <<mdsvars, capvars, tab, rel, rc, rn, lk>>

\* unregister_session for rank mds: the dentries keep their references
LeaseUnregister(mds) ==
    /\ ls.sessions[mds] # 0
    /\ ls' = [ls EXCEPT !.sessions[mds] = 0, !.out = <<>>,
                        !.op = NewLeases.op]
    /\ UNCHANGED <<mdsvars, capvars, tab, rel, rc, rn, lk>>

\* ---------------------------------------------------------------------
\* the threads and the locks they sleep on: mdsc->mutex, each session's
\* s_mutex and mdsc->snap_rwsem, taken and dropped in the order each function
\* of mds_client.c takes and drops them

MaxThreads == 3

MaxLockSess == 2

Threads == 1..MaxThreads

LockSess == 1..MaxLockSess

mdsc_mutex == [n |-> "mutex", s |-> 0]

s_mutex(s) == [n |-> "s_mutex", s |-> s]

snap_rwsem == [n |-> "snap_rwsem", s |-> 0]

Mutexes == {mdsc_mutex} \cup {s_mutex(s) : s \in LockSess}

mutex_lock(l) == [op |-> "mutex_lock", l |-> l]

mutex_unlock(l) == [op |-> "mutex_unlock", l |-> l]

down_read == [op |-> "down_read", l |-> snap_rwsem]

down_write == [op |-> "down_write", l |-> snap_rwsem]

downgrade_write == [op |-> "downgrade_write", l |-> snap_rwsem]

up_read == [op |-> "up_read", l |-> snap_rwsem]

\* mutex_lock(&mdsc->mutex) ... mutex_unlock(&mdsc->mutex)
Region == <<mutex_lock(mdsc_mutex), mutex_unlock(mdsc_mutex)>>

\* mutex_lock(&s->s_mutex) ... mutex_unlock(&s->s_mutex)
SessionRegion(s) == <<mutex_lock(s_mutex(s)), mutex_unlock(s_mutex(s))>>

\* the sessions a pass over mdsc->sessions[] comes by, in rank order
SessionRuns ==
    {<<>>} \cup {<<s>> : s \in LockSess}
           \cup {q \in LockSess \X LockSess : q[1] < q[2]}

\* the locks of a pass that does visit(s) for each session of run
Each(run, visit(_)) ==
    IF run = <<>> THEN <<>>
    ELSE IF Len(run) = 1 THEN visit(run[1])
    ELSE visit(run[1]) \o visit(run[2])

\* ceph_mdsc_do_request: the wait for r_completion holds no lock
ceph_mdsc_do_request_locks == {Region, Region \o Region}

\* handle_reply: the early returns, a corrupt reply, ESTALE, a reply with a
\* snap trace, a reply without
handle_reply_locks(s) ==
    {Region,
     Region \o SessionRegion(s),
     Region \o SessionRegion(s) \o Region,
     Region \o <<mutex_lock(s_mutex(s)), down_write, downgrade_write, up_read,
                 mutex_unlock(s_mutex(s))>>,
     Region \o <<mutex_lock(s_mutex(s)), down_read, up_read,
                 mutex_unlock(s_mutex(s))>>}

\* handle_forward
handle_forward_locks == {Region}

\* handle_session: no session, a session, a session and "if (wake)"
handle_session_locks(s) ==
    {Region, Region \o SessionRegion(s), Region \o SessionRegion(s) \o Region}

\* handle_lease: no session, a session
handle_lease_locks(s) == {Region, Region \o SessionRegion(s)}

\* replay_unsafe_requests
replay_unsafe_requests_locks == Region

\* send_mds_reconnect, entered and left with mdsc->mutex held; s = 0: no
\* session for the rank
send_mds_reconnect_locks(s) ==
    IF s = 0
    THEN <<mutex_unlock(mdsc_mutex), down_read, up_read, mutex_lock(mdsc_mutex)>>
    ELSE <<mutex_unlock(mdsc_mutex), mutex_lock(s_mutex(s))>>
         \o replay_unsafe_requests_locks
         \o <<down_read, up_read, mutex_unlock(s_mutex(s)),
              mutex_lock(mdsc_mutex)>>

\* ceph_mdsc_handle_map: check_new_map reconnecting to no rank, to a rank
\* with no session, to the ranks of run
ceph_mdsc_handle_map_locks ==
    {Region,
     <<mutex_lock(mdsc_mutex)>> \o send_mds_reconnect_locks(0)
         \o <<mutex_unlock(mdsc_mutex)>>}
    \cup {<<mutex_lock(mdsc_mutex)>> \o Each(run, send_mds_reconnect_locks)
              \o <<mutex_unlock(mdsc_mutex)>> : run \in SessionRuns}

\* the loop body of a pass that drops mdsc->mutex for the session's s_mutex
\* without dropping mdsc->mutex
delayed_work_session_locks_nested(s) == SessionRegion(s)

\* delayed_work, the body of "for (i = 0; i < mdsc->max_sessions; i++)"
delayed_work_session_locks(s) ==
    <<mutex_unlock(mdsc_mutex)>> \o SessionRegion(s) \o <<mutex_lock(mdsc_mutex)>>

\* delayed_work
delayed_work_locks ==
    {<<mutex_lock(mdsc_mutex)>> \o Each(run, delayed_work_session_locks)
         \o <<mutex_unlock(mdsc_mutex)>> : run \in SessionRuns}

\* check_cap_flush under ceph_mdsc_sync: a full pass, or "if (!ret) return ret"
\* after the s_mutex of a session
check_cap_flush_locks ==
    delayed_work_locks
    \cup {Region \o SessionRegion(s) : s \in LockSess}

\* ceph_mdsc_close_sessions: the closing pass, the timed wait, the tear-down pass
ceph_mdsc_close_sessions_locks ==
    {<<mutex_lock(mdsc_mutex)>> \o Each(run, delayed_work_session_locks)
         \o <<mutex_unlock(mdsc_mutex), mutex_lock(mdsc_mutex)>>
         \o Each(run, delayed_work_session_locks)
         \o <<mutex_unlock(mdsc_mutex)>> : run \in SessionRuns}

\* what a thread can be running: a caller (do_request, wait_requests,
\* wait_unsafe_requests and the first region of ceph_mdsc_sync have the locks
\* of ceph_mdsc_do_request), a messenger dispatch, the tick (drop_leases has
\* the locks of delayed_work), sync and the shutdown path
LockPaths ==
    ceph_mdsc_do_request_locks \cup handle_forward_locks
    \cup UNION {handle_reply_locks(s) : s \in LockSess}
    \cup UNION {handle_session_locks(s) : s \in LockSess}
    \cup UNION {handle_lease_locks(s) : s \in LockSess}
    \cup ceph_mdsc_handle_map_locks \cup delayed_work_locks
    \cup check_cap_flush_locks \cup ceph_mdsc_close_sessions_locks

\* no thread running, no lock held
NewLocks ==
    [thr |-> [t \in Threads |-> <<>>], owner |-> [l \in Mutexes |-> 0],
     writer |-> 0, readers |-> {}]

\* the threads holding what the next operation of thread t needs
Blockers(K, t) ==
    IF K.thr[t] = <<>> THEN {}
    ELSE CASE Head(K.thr[t]).op = "mutex_lock" ->
                  {K.owner[Head(K.thr[t]).l]} \ {0}
           [] Head(K.thr[t]).op = "down_read" -> {K.writer} \ {0}
           [] Head(K.thr[t]).op = "down_write" -> ({K.writer} \ {0}) \cup K.readers
           [] OTHER -> {}

\* the locks after thread t has done operation o
LockApply(K, t, o) ==
    CASE o.op = "mutex_lock" -> [K EXCEPT !.owner[o.l] = t]
      [] o.op = "mutex_unlock" -> [K EXCEPT !.owner[o.l] = 0]
      [] o.op = "down_read" -> [K EXCEPT !.readers = @ \cup {t}]
      [] o.op = "down_write" -> [K EXCEPT !.writer = t]
      [] o.op = "downgrade_write" ->
             [K EXCEPT !.writer = 0, !.readers = @ \cup {t}]
      [] o.op = "up_read" -> [K EXCEPT !.readers = @ \ {t}]

\* an idle thread enters a function
ThreadStart(t, path) ==
    /\ lk.thr[t] = <<>>
    /\ lk' = [lk EXCEPT !.thr[t] = path]
    /\ UNCHANGED <<mdsvars, capvars, tab, rel, rc, rn, ls>>

\* a thread that is not blocked does its next lock operation
ThreadStep(t) ==
    /\ lk.thr[t] # <<>>
    /\ Blockers(lk, t) = {}
    /\ lk' = [LockApply(lk, t, Head(lk.thr[t])) EXCEPT !.thr[t] = Tail(@)]
    /\ UNCHANGED <<mdsvars, capvars, tab, rel, rc, rn, ls>>

MdsInit ==
    /\ last_tid = 0
    /\ request_tree = {}
    /\ req = [r \in Reqs |-> NewRequest]
    /\ sessions = [m \in Slots |-> 0]
    /\ max_sessions = 0
    /\ sess = [s \in SessIds |-> FreeSession]
    /\ nsess = 0
    /\ waiting_for_map = <<>>
    /\ mdsmap = EmptyMap
    /\ stopping = FALSE
    /\ deadline = [r \in Reqs |-> FALSE]
    /\ pc = [r \in Reqs |-> "new"]
    /\ ret = [r \in Reqs |-> "none"]
    /\ hr = Idle
    /\ um = "mounted"
    /\ disturbed = 0
    /\ oldest_sent = [m \in Ranks |-> 0]
    /\ fault = "none"
    /\ ev = Quiet("init", 0, "")

Init ==
    /\ MdsInit
    /\ ci = NewInode
    /\ grant = NoGrant
    /\ tab = NewTable
    /\ rel = NewReleases(0)
    /\ rc = NewReconnect(0, 0, 0)
    /\ rn = NewRenew(1, {})
    /\ ls = NewLeases
    /\ lk = NewLocks

Next ==
    \/ \E r \in Reqs, t \in Timeouts, o \in Oracles(mdsmap, MaxDisturb - disturbed) :
          Submit(r, t, o)
    \/ \E r \in Reqs : TimePasses(r)
    \/ \E r \in Reqs : CallerWake(r)
    \/ \E r \in Reqs : CallerExpire(r)
    \/ \E r \in Reqs : CallerAfterExpire(r)
    \/ \E tid \in 1..MaxReq, mds \in Ranks, safe \in BOOLEAN, result \in Results :
          HandleReply(tid, mds, safe, result)
    \/ \E o \in Oracles(mdsmap, MaxDisturb - disturbed) : HandleReplyParse(o)
    \/ \E tid \in 1..MaxReq, from_mds \in Ranks, next_mds \in Ranks,
          fwd_seq \in 0..MaxFwd, must_resend \in BOOLEAN, segv \in BOOLEAN,
          o \in Oracles(mdsmap, MaxDisturb - disturbed - 1) :
          HandleForward(tid, from_mds, next_mds, fwd_seq, must_resend, segv, o)
    \/ \E mds \in Ranks, op \in SessionOps : HandleSession(mds, op)
    \/ \E new \in NewMaps(mdsmap) : HandleMap(new)
    \/ \E new \in OldMaps(mdsmap) : HandleOldMap(new)
    \/ \E new \in NewMaps(mdsmap) : HandleBadMap(new)
    \/ \E exp \in [Ranks -> BOOLEAN] : Tick(exp)
    \/ PreUmount
    \/ WaitRequestsTeardown
    \/ CloseSessions
    \/ CloseSessionsTeardown

Spec == Init /\ [][Next]_vars

\* the cap handling of one inode, with the mds client at rest
CapNext ==
    \/ \E mds \in Ranks, newcaps \in CapMasks, seq \in CapSeqs, wanted \in BOOLEAN :
          HandleCapGrant(mds, newcaps, seq, wanted)
    \/ \E bits \in CapMasks : MarkDirty(bits)

CapSpec == Init /\ [][CapNext]_vars

\* the session table alone, with ranks wide enough for the capacity to be
\* rounded up
TableNext ==
    \/ \E mds \in WideRanks, alloc \in {"ok", "s", "sa"} : RegisterSession(mds, alloc)
    \/ \E mds \in WideRanks : UnregisterSession(mds)

TableSpec == Init /\ [][TableNext]_vars

\* the cap release messages of one session, for each cap_release_safety
ReleaseInit ==
    /\ MdsInit
    /\ ci = NewInode
    /\ grant = NoGrant
    /\ tab = NewTable
    /\ rel \in {NewReleases(safety) : safety \in 0..MaxSafety}
    /\ rc = NewReconnect(0, 0, 0)
    /\ rn = NewRenew(1, {})
    /\ ls = NewLeases
    /\ lk = NewLocks

ReleaseNext ==
    \/ \E n \in 0..1, nomem \in BOOLEAN : ReplyReleases(n, nomem)
    \/ \E nomem \in BOOLEAN : TickReleases(nomem)
    \/ GrantCap
    \/ RemoveCap

ReleaseSpec == ReleaseInit /\ [][ReleaseNext]_vars

\* send_mds_reconnect building the message, for each number of caps and of
\* snap realms and each length of the paths
RegrowInit ==
    /\ MdsInit
    /\ ci = NewInode
    /\ grant = NoGrant
    /\ tab = NewTable
    /\ rel = NewReleases(0)
    /\ rc \in {NewReconnect(nr, realms, pathlen) :
                  nr \in 0..MaxRcCaps, realms \in 0..MaxRealms, pathlen \in PathLens}
    /\ rn = NewRenew(1, {})
    /\ ls = NewLeases
    /\ lk = NewLocks

RegrowNext == \E nomem \in BOOLEAN : ReconnectPass(nomem)

RegrowSpec == RegrowInit /\ [][RegrowNext]_vars

\* renewed_caps and send_renew_caps of one session, for every session
\* timeout and every set of caps
RenewInit ==
    /\ MdsInit
    /\ ci = NewInode
    /\ grant = NoGrant
    /\ tab = NewTable
    /\ rel = NewReleases(0)
    /\ rc = NewReconnect(0, 0, 0)
    /\ rn \in {NewRenew(timeout, caps) :
                  timeout \in SessionTimeouts, caps \in SUBSET Reqs}
    /\ ls = NewLeases
    /\ lk = NewLocks

RenewNext ==
    \/ Jiffy
    \/ \E up \in BOOLEAN, nomem \in BOOLEAN : RequestRenew(up, nomem)
    \/ HandleRenewCaps
    \/ HandleOpen
    \/ \E up \in BOOLEAN, nomem \in BOOLEAN : HandleStale(up, nomem)

RenewSpec == RenewInit /\ [][RenewNext]_vars

\* the lease messages, the callers releasing leases and the session table
LeaseNext ==
    \/ \E mds \in Ranks, action \in LeaseActions, target \in LeaseTargets,
          fresh \in BOOLEAN : HandleLease(mds, action, target, 0, fresh, FALSE)
    \/ \E mds \in Ranks : HandleLease(mds, "revoke", "nodentry", 0, FALSE, TRUE)
    \/ \E d \in Dentries, valid \in BOOLEAN, nomem \in BOOLEAN :
          LeaseRelease(d, valid, nomem)
    \/ \E d \in Dentries, mds \in Ranks : TakeLease(d, mds, 1)
    \/ \E d \in Dentries : StartRenew(d)
    \/ \E mds \in Ranks : LeaseRegister(mds)
    \/ \E mds \in Ranks : LeaseUnregister(mds)

LeaseSpec == Init /\ [][LeaseNext]_vars

\* the threads taking and dropping locks
LockNext ==
    \/ \E t \in Threads, path \in LockPaths : ThreadStart(t, path)
    \/ \E t \in Threads : ThreadStep(t)

LockSpec == Init /\ [][LockNext]_vars

\* ------------------------------------------------------------- properties
\* a request that went through __register_request
Submitted(r) == pc[r] # "new"

\* C1: every request that was registered has a tid > 0 that last_tid bounds,
\* the tids are handed out strictly increasing (requests are submitted in the
\* order of their slots), so no two requests ever have the same tid, also
\* after one of them was unregistered
C1_TidsIncrease ==
    /\ \A r \in request_tree : req[r].tid > 0 /\ req[r].tid <= last_tid
    /\ \A r \in Reqs : Submitted(r) => req[r].tid > 0 /\ req[r].tid <= last_tid
    /\ \A r, q \in Reqs :
          (Submitted(r) /\ Submitted(q) /\ r < q) => req[r].tid < req[q].tid

\* a second request is registered after the first one was unregistered
C1_Witness ==
    /\ ev.kind = "submit" /\ ev.r = 2
    /\ 1 \notin request_tree
    /\ 2 \in request_tree

\* C2: every request linked on the unsafe list of a session has got_unsafe
\* and has not got_safe
C2_UnsafeListed ==
    \A s \in SessIds : \A r \in Reqs :
        InSeq(sess[s].s_unsafe, r) => req[r].got_unsafe /\ ~req[r].got_safe

\* the reply (safe or not) for request r would be a duplicate
IsDup(r, safe) ==
    /\ __lookup_request(Cur, req[r].tid) = r
    /\ (req[r].got_unsafe /\ ~safe) \/ (req[r].got_safe /\ safe)

\* C3: a reply that repeats the unsafe (or the safe) reply of a request that
\* is still found by its tid is classified as a duplicate whatever rank it
\* comes from, and the step that handles a duplicate changes no request, not
\* the request map, no session (so no unsafe list), no wait list, wakes no
\* caller and does not go on to parse the reply
C3_DupReplyDropped ==
    [][/\ \A r \in Reqs, mds \in Ranks, safe \in BOOLEAN :
              IsDup(r, safe) =>
                  handle_reply_locked(Cur, req[r].tid, mds, safe)
                      = [C |-> Cur, r |-> r, how |-> "dup"]
       /\ (ev'.kind = "reply" /\ ev'.how = "dup") =>
              /\ UNCHANGED <<last_tid, request_tree, req, sessions,
                             max_sessions, sess, nsess, waiting_for_map,
                             mdsmap, stopping, deadline, pc, ret, um, fault>>
              /\ hr' = Idle
              /\ ev'.out = <<>>]_vars

\* a second unsafe reply was dropped as a duplicate
C3_Witness ==
    /\ ev.kind = "reply" /\ ev.how = "dup"
    /\ req[ev.r].got_unsafe
    /\ ev.r \in request_tree

\* C4: once a request has got_safe, it keeps it, its got_unsafe does not
\* change, it is linked on no unsafe list it was not on before, and no reply
\* for it is acted upon any more (neither parsed nor cleaned up)
C4_SafeMonotone ==
    [][\A r \in Reqs :
          req[r].got_safe =>
              /\ req'[r].got_safe
              /\ req'[r].got_unsafe = req[r].got_unsafe
              /\ \A s \in SessIds :
                     InSeq(sess'[s].s_unsafe, r) => InSeq(sess[s].s_unsafe, r)
              /\ ~(/\ ev'.kind = "reply" /\ ev'.r = r
                    /\ ev'.how \in {"parse", "safe_done", "no_session", "bug"})
       ]_vars

\* a reply arrived for a request that had its safe reply, and was dropped
C4_Witness ==
    /\ ev.kind = "reply" /\ ev.how = "unknown"
    /\ pc[2] = "new"
    /\ req[1].got_safe

\* request r is linked on no list of the client
OnNoList(r) ==
    /\ ~InSeq(waiting_for_map, r)
    /\ \A s \in SessIds :
           ~InSeq(sess[s].s_waiting, r) /\ ~InSeq(sess[s].s_unsafe, r)

\* C5: a request that was registered and is no longer in the request map is
\* on no wait list and on no unsafe list
C5_UnregisteredUnreachable ==
    \A r \in Reqs : (Submitted(r) /\ r \notin request_tree) => OnNoList(r)

\* the sessions whose waiting list holds request r
WaitingOn(r) == {s \in SessIds : InSeq(sess[s].s_waiting, r)}

\* request r is parked on exactly one wait list, once
ParkedOnce(r) ==
    \/ /\ Occurrences(waiting_for_map, r) = 1
       /\ WaitingOn(r) = {}
    \/ /\ ~InSeq(waiting_for_map, r)
       /\ Cardinality(WaitingOn(r)) = 1
       /\ \A s \in WaitingOn(r) : Occurrences(sess[s].s_waiting, r) = 1

\* every session the client made is still registered and none is hung,
\* closing or reconnecting
SessionsRemainOpen ==
    \A s \in SessIds :
        sess[s].s_state # "free" =>
            /\ sessions[sess[s].s_mds] = s
            /\ sess[s].s_state \in {"new", "opening", "open"}

\* C6: while the sessions remain open and the client is not shutting down
\* (and no BUG_ON or bad pointer stopped a handler), every registered request
\* whose caller still waits and was not woken has a session (is in flight) or
\* is parked on exactly one wait list, once
C6_InFlightOrParked ==
    (fault # "oops" /\ ~stopping /\ um = "mounted" /\ SessionsRemainOpen) =>
        \A r \in request_tree :
            (pc[r] = "waiting" /\ req[r].completion = 0) =>
                (req[r].session # 0 \/ ParkedOnce(r))

\* request r took one or two ESTALE replies, its caller still waits and it
\* was sent again, to rank mds
StaleRetried(r, mds) ==
    /\ pc[r] = "waiting" /\ req[r].completion = 0
    /\ req[r].num_stale \in {1, 2}
    /\ req[r].session # 0
    /\ sess[req[r].session].s_mds = mds

\* C7: the second and the third ESTALE reply to a request, coming from the
\* rank the request was sent to again, are taken up like the first: the
\* handler goes on to the parse, where ESTALE is counted and the request is
\* dispatched again or the result handed to the caller
C7_StaleRedispatched ==
    [][\A tid \in 1..MaxReq, mds \in Ranks, safe \in BOOLEAN, r \in Reqs :
          (/\ ev'.kind = "reply"
           /\ req[r].tid = tid
           /\ StaleRetried(r, mds)
           /\ HandleReply(tid, mds, safe, "ESTALE"))
              => hr' = [r |-> r, result |-> "ESTALE"]]_vars

\* the client has an open or hung session for rank mds
HaveOpenSession(mds) ==
    /\ __have_session(Cur, mds)
    /\ sess[sessions[mds]].s_state \in {"open", "hung"}

\* the step sent request r to rank mds with the given num_fwd and num_retry
SentTo(out, r, mds, num_fwd, num_retry) ==
    \E i \in DOMAIN out :
        /\ out[i].type = "request"
        /\ out[i].tid = req[r].tid
        /\ out[i].mds = mds
        /\ out[i].num_fwd = num_fwd
        /\ out[i].num_retry = num_retry

\* request r was sent over a session and has no reply yet, its caller waits
InFlight(r) ==
    /\ pc[r] = "waiting" /\ req[r].completion = 0 /\ req[r].reply = "none"
    /\ req[r].session # 0
    /\ ~req[r].got_unsafe

\* C8: a forward of a registered request in flight, with fwd_seq > num_fwd,
\* arriving before the request's deadline and with no allocation failing,
\* that must be resent, or names a rank the client has no open or hung
\* session for (or no session at all), is handled without a fault, sets num_fwd = fwd_seq, and
\* the request is sent to next_mds with num_fwd = fwd_seq and one more retry,
\* or parked for next_mds (on its session, or on waiting_for_map with the
\* hint resend_mds = next_mds)
C8_ForwardResent ==
    [][\A tid \in 1..MaxReq, from_mds \in Ranks, next_mds \in Ranks,
          fwd_seq \in 0..MaxFwd, must_resend \in BOOLEAN, segv \in BOOLEAN,
          o \in Oracles(mdsmap, 1), r \in Reqs :
          (/\ ev'.kind = "forward"
           /\ __lookup_request(Cur, tid) = r
           /\ InFlight(r) /\ ~deadline[r] /\ ~o.fail
           /\ fwd_seq > req[r].num_fwd
           /\ must_resend \/ ~HaveOpenSession(next_mds)
           /\ HandleForward(tid, from_mds, next_mds, fwd_seq, must_resend,
                            segv, o))
              => /\ fault' = "none"
                 /\ req'[r].num_fwd = fwd_seq
                 /\ \/ SentTo(ev'.out, r, next_mds, fwd_seq, req[r].attempts)
                    \/ /\ sessions'[next_mds] # 0
                       /\ InSeq(sess'[sessions'[next_mds]].s_waiting, r)
                    \/ /\ InSeq(waiting_for_map', r)
                       /\ req'[r].resend_mds = next_mds]_vars

\* C9: a forward of a registered request with fwd_seq <= num_fwd is ignored:
\* the handler returns without a fault, no request, no session and no list
\* changes and nothing is sent
C9_OldForwardIgnored ==
    [][\A tid \in 1..MaxReq, from_mds \in Ranks, next_mds \in Ranks,
          fwd_seq \in 0..MaxFwd, must_resend \in BOOLEAN, segv \in BOOLEAN,
          o \in Oracles(mdsmap, 1), r \in Reqs :
          (/\ ev'.kind = "forward"
           /\ __lookup_request(Cur, tid) = r
           /\ fwd_seq <= req[r].num_fwd
           /\ HandleForward(tid, from_mds, next_mds, fwd_seq, must_resend,
                            segv, o))
              => /\ UNCHANGED <<last_tid, request_tree, req, sessions,
                                max_sessions, sess, nsess, waiting_for_map,
                                mdsmap, stopping, fault>>
                 /\ ev'.out = <<>>]_vars

\* C10: a caller whose wait timed out returns EIO with the request out of
\* the request map; once a caller returned EIO, no request message with the
\* tid is sent and no reply or forward finds the request by its tid
C10_TimeoutIsFinal ==
    [][\A r \in Reqs :
          /\ (pc[r] = "expired" /\ pc'[r] = "done") =>
                 (ret'[r] = "EIO" /\ r \notin request_tree')
          /\ (pc[r] = "done" /\ ret[r] = "EIO") =>
                 /\ \A i \in DOMAIN ev'.out :
                        ev'.out[i].type = "request" => ev'.out[i].tid # req[r].tid
                 /\ ~(ev'.kind \in {"reply", "forward"} /\ ev'.r = r)]_vars

\* a request message among the messages a step handed to the messenger
RequestMsgs(out) == {i \in DOMAIN out : out[i].type = "request"}

\* t is the lowest tid of the requests of tree, 0 for an empty tree
IsOldestTid(t, tree, rq) ==
    IF tree = {} THEN t = 0
    ELSE /\ \E r \in tree : rq[r].tid = t
         /\ \A r \in tree : t <= rq[r].tid

\* C11: every request message a step hands to the messenger (first send,
\* kick, forward resend, ESTALE retry, unsafe replay) carries as
\* oldest_client_tid the lowest tid of the request map as it is when the
\* message is built, 0 for an empty map; no step changes the map after it
\* built a request message, so that map is the one the step leaves
C11_OldestTidSent ==
    [][\A i \in RequestMsgs(ev'.out) :
          IsOldestTid(ev'.out[i].oldest_client_tid, request_tree', req')]_vars

\* the second request is sent while the first is still registered
C11_Witness ==
    \E i \in RequestMsgs(ev.out) :
        /\ ev.out[i].tid = 2
        /\ ev.out[i].oldest_client_tid = 1
        /\ request_tree = {1, 2}

\* what the request message before out[i] to the same rank carried: an
\* earlier message of the same step, else the last one of the steps before
OldestBefore(out, i) ==
    LET earlier == {j \in RequestsTo(out, out[i].mds) : j < i}
    IN IF earlier = {} THEN oldest_sent[out[i].mds]
       ELSE out[CHOOSE j \in earlier : \A k \in earlier : k <= j].oldest_client_tid

\* C12: for each rank the oldest_client_tid values of the request messages
\* sent to it never decrease, in send order, whatever the reason of the send
C12_OldestTidMonotone ==
    [][\A i \in RequestMsgs(ev'.out) :
          ev'.out[i].oldest_client_tid >= OldestBefore(ev'.out, i)]_vars

SessionStates == {"new", "opening", "open", "hung", "closing", "reconnecting"}

\* the changes of s_state a step made
Changes(moves) == {m \in moves : m[1] # m[2]}

\* the transitions of the session state machine as listed; <<"free", "new">>
\* is a session starting in new
ListedMoves ==
    {<<"free", "new">>, <<"new", "opening">>, <<"opening", "open">>,
     <<"open", "hung">>, <<"hung", "open">>, <<"open", "reconnecting">>,
     <<"reconnecting", "open">>} \cup {<<st, "closing">> : st \in SessionStates}

UnlistedMoves ==
    {<<"new", "open">>, <<"closing", "open">>, <<"closing", "opening">>,
     <<"opening", "reconnecting">>, <<"hung", "reconnecting">>,
     <<"closing", "reconnecting">>}

StateFound(m) ==
    IF __have_session(Cur, m) THEN sess[sessions[m]].s_state ELSE "new"

\* a message of the given type to rank m among the messages out
MsgTo(out, type, m) ==
    \E i \in DOMAIN out : out[i].type = type /\ out[i].mds = m

\* a request message for tid among the messages out
RequestSent(out, tid) ==
    \E i \in RequestMsgs(out) : out[i].tid = tid

\* C14: when a caller submits a request and __do_request picks rank m, active
\* in the map: with the session of m open or hung the request goes out
\* through that session only; with the session in any other state the request
\* is parked on the s_waiting of that session, no request message is sent for
\* it, and a session-open message is sent exactly when the state was new (or
\* there was no session yet) or closing
C14_SendOnlyWhenOpen ==
    [][\A r \in Reqs, t \in Timeouts, m \in Ranks, fail \in BOOLEAN :
          (/\ ev'.kind = "submit"
           /\ AtLeastActive(ceph_mdsmap_get_state(mdsmap, m))
           /\ Submit(r, t, [mds |-> m, fail |-> fail]))
              => IF StateFound(m) \in {"open", "hung"}
                 THEN \A i \in RequestMsgs(ev'.out) :
                          /\ ev'.out[i].mds = m
                          /\ ev'.out[i].sid = sessions[m]
                 ELSE /\ sessions'[m] # 0
                      /\ InSeq(sess'[sessions'[m]].s_waiting, r)
                      /\ ~RequestSent(ev'.out, req'[r].tid)
                      /\ MsgTo(ev'.out, "session_open", m)
                             <=> StateFound(m) \in {"new", "closing"}]_vars

\* the requests for a map of the given epoch among the messages out
WantMaps(out, epoch) ==
    {i \in DOMAIN out : out[i].type = "want_map" /\ out[i].epoch = epoch}

\* __choose_mds returning pick leaves __do_request without a usable target
NoTarget(pick) ==
    pick < 0 \/ ~AtLeastActive(ceph_mdsmap_get_state(mdsmap, pick))

\* what __do_request can have done with r during the step
Redispatched(r) ==
    \/ req[r].reply # "none"
    \/ req[r].reply = "none" /\ IsErr(req'[r].reply)
    \/ RequestSent(ev'.out, req[r].tid)
    \/ \E s \in SessIds : InSeq(sess'[s].s_waiting, r)
    \/ InSeq(waiting_for_map', r)

\* C15: a submitted request for which __do_request finds no usable target is
\* parked on waiting_for_map, nothing is sent to an mds and the map of the
\* next epoch is asked for.  When a newer map is installed every request that
\* was parked on waiting_for_map goes through __do_request again (it is sent,
\* parked, or completed with an error, unless it had a reply already), and
\* waiting_for_map is left with requests parked during the step only, each
\* once, each having asked for the epoch after the new one
C15_ParkedForMap ==
    [][/\ \A r \in Reqs, t \in Timeouts, o \in Oracles(mdsmap, 0) :
              (/\ ev'.kind = "submit"
               /\ NoTarget(o.mds)
               /\ Submit(r, t, o))
                  => /\ waiting_for_map' = <<r>> \o waiting_for_map
                     /\ \A i \in DOMAIN ev'.out : ev'.out[i].type = "want_map"
                     /\ WantMaps(ev'.out, mdsmap.epoch + 1) # {}
       /\ (ev'.kind = "map" /\ mdsmap'.epoch > mdsmap.epoch) =>
              /\ \A r \in Reqs : InSeq(waiting_for_map, r) => Redispatched(r)
              /\ \A r \in Reqs : Occurrences(waiting_for_map', r) <= 1
              /\ Len(waiting_for_map')
                     <= Cardinality(WantMaps(ev'.out, mdsmap'.epoch + 1))]_vars

\* the session of rank mds is hung
Hung(mds) ==
    __have_session(Cur, mds) /\ sess[sessions[mds]].s_state = "hung"

\* C16: a step that handles a message from the rank of a hung session - a
\* reply, a forward or a session message - sets the session back to open
C16_HungReturnsToOpen ==
    [][/\ \A tid \in 1..MaxReq, mds \in Ranks, safe \in BOOLEAN,
             result \in Results :
              (/\ ev'.kind = "reply"
               /\ Hung(mds)
               /\ HandleReply(tid, mds, safe, result))
                  => <<"hung", "open">> \in ev'.moves
       /\ \A tid \in 1..MaxReq, from_mds \in Ranks, next_mds \in Ranks,
             fwd_seq \in 0..MaxFwd, must_resend \in BOOLEAN, segv \in BOOLEAN,
             o \in Oracles(mdsmap, 1) :
              (/\ ev'.kind = "forward"
               /\ Hung(from_mds)
               /\ HandleForward(tid, from_mds, next_mds, fwd_seq, must_resend,
                                segv, o))
                  => <<"hung", "open">> \in ev'.moves
       /\ \A mds \in Ranks, op \in SessionOps :
              (/\ ev'.kind = "session"
               /\ Hung(mds)
               /\ HandleSession(mds, op))
                  => <<"hung", "open">> \in ev'.moves]_vars

\* the session object the messages of rank mds are handled on, 0 for none
SessionOf(mds) == __ceph_lookup_mds_session(Cur, mds)

\* C17: the s_cap_gen of a session starts at 0 and never decreases; a
\* SESSION_STALE message adds exactly one to it and sets s_cap_ttl to 0; no
\* other step (open, renew, close, recall, reconnect, tick, request
\* handling) changes it
C17_CapGenMonotone ==
    [][/\ \A s \in SessIds :
              IF sess[s].s_state = "free"
              THEN sess'[s].s_cap_gen = 0
              ELSE sess'[s].s_cap_gen >= sess[s].s_cap_gen
       /\ \A mds \in Ranks, op \in SessionOps :
              (/\ ev'.kind = "session"
               /\ HandleSession(mds, op))
                  => \A s \in SessIds :
                        IF op = "stale" /\ s = SessionOf(mds)
                        THEN /\ sess'[s].s_cap_gen = sess[s].s_cap_gen + 1
                             /\ sess'[s].s_cap_ttl = "zero"
                        ELSE sess'[s].s_cap_gen = sess[s].s_cap_gen
       /\ ev'.kind # "session" =>
              \A s \in SessIds : sess'[s].s_cap_gen = sess[s].s_cap_gen]_vars

\* a second SESSION_STALE for a session that was renewed in between
C17_Witness ==
    /\ ev.kind = "session" /\ ev.how = "stale"
    /\ \E s \in SessIds : sess[s].s_cap_gen = 2 /\ sess[s].s_cap_ttl = "zero"

\* the reconnect message of session s was handed to its connection
ReconnectSent(out, s) ==
    \E i \in DOMAIN out : out[i].type = "reconnect" /\ out[i].sid = s

\* C18: a cap held on a session before a reconnect is, once the reconnect is
\* done and the session is open again, either still held with seq = 0,
\* issue_seq = 0 and gen = s_cap_gen of the session, or removed with the
\* waiters of its inode woken
C18_ReconnectRoundTrip ==
    [][\A s \in SessIds, c \in Reqs :
          (/\ ev'.kind = "map"
           /\ sess[s].s_caps[c].held
           /\ ReconnectSent(ev'.out, s)
           /\ sess'[s].s_state = "open")
              => \/ /\ sess'[s].s_caps[c].held
                    /\ sess'[s].s_caps[c].seq = 0
                    /\ sess'[s].s_caps[c].issue_seq = 0
                    /\ sess'[s].s_caps[c].gen = sess'[s].s_cap_gen
                 \/ /\ ~sess'[s].s_caps[c].held
                    /\ <<s, c>> \in ev'.woke]_vars

\* C19: the epoch of the installed map only grows; a map of an epoch that
\* is not above the installed one changes nothing (map, sessions, requests,
\* wait lists) and sends nothing; a map of a greater epoch becomes the
\* installed map
C19_EpochIncreases ==
    [][/\ mdsmap'.epoch >= mdsmap.epoch
       /\ mdsmap' # mdsmap => mdsmap'.epoch > mdsmap.epoch
       /\ \A new \in OldMaps(mdsmap) :
              (ev'.kind = "map" /\ HandleOldMap(new))
                  => /\ UNCHANGED <<mdsmap, sessions, max_sessions, sess, req,
                                    request_tree, waiting_for_map>>
                     /\ ev'.out = <<>>
       /\ \A new \in NewMaps(mdsmap) :
              (ev'.kind = "map" /\ (HandleMap(new) \/ HandleBadMap(new)))
                  => mdsmap' = new]_vars

\* the session of slot m leaves the table in this step
Removed(m) == sessions[m] # 0 /\ sessions'[m] # sessions[m]

\* a session enters the table at slot m in this step
Created(m) == sessions'[m] # 0 /\ sessions'[m] # sessions[m]

C21_RejectedWhenStopping ==
    [][(stopping /\ ev'.kind = "submit")
          => /\ last_tid' = last_tid
             /\ request_tree' = request_tree
             /\ RequestMsgs(ev'.out) = {}]_vars

\* the order of the locks: mdsc->mutex, snap_rwsem, s_mutex, i_lock,
\* s_cap_lock
LockRank(l) ==
    CASE l = "mutex" -> 1
      [] l = "snap_rwsem" -> 2
      [] l = "s_mutex" -> 3
      [] l = "i_lock" -> 4
      [] l = "s_cap_lock" -> 5

\* C22: no thread takes mdsc->mutex or snap_rwsem while it holds an
\* s_mutex: every lock is taken after the locks held, in the order
\* mdsc->mutex, snap_rwsem, s_mutex, i_lock, s_cap_lock
C22_LockOrder ==
    \A p \in ev.acq : LockRank(p[1]) < LockRank(p[2])

\* C26: every execution of __do_request, __wake_requests, kick_requests,
\* register_session and unregister_session happens with mdsc->mutex held,
\* in the session handlers and on the reconnect path too
C26_UnderMutex == ev.bare = {}

\* C23: when a cap message takes away bits of the cap of the inode and some
\* of them are dirty, the handler starts the flush of those dirty bits before
\* it acknowledges the revocation with the new mask
C23_FlushBeforeAck ==
    (grant.kind = "revoke" /\ grant.ret = 1)
        => ((grant.had \ grant.newcaps) \cap grant.dirty) \subseteq grant.flush

\* the powers of two up to the largest capacity of the table
IsPow2(n) == \E k \in 0..MaxWideMds : n = 2 ^ k

\* C24: registering a session for a rank N at or past the capacity grows the
\* capacity to the smallest power of two >= N + 1; a rank below the capacity
\* leaves the capacity as it is; the sessions of the other ranks stay, and
\* rank N maps to the new session
C24_TableGrowth ==
    [][(tab'.last.kind = "register" /\ tab'.last.ret = "ok" /\ tab' # tab)
          => /\ IF tab'.last.mds >= tab.max_sessions
                THEN /\ IsPow2(tab'.max_sessions)
                     /\ tab'.max_sessions >= tab'.last.mds + 1
                     /\ \A p \in 1..(2 * MaxWideMds) :
                           (IsPow2(p) /\ p >= tab'.last.mds + 1)
                               => tab'.max_sessions <= p
                ELSE tab'.max_sessions = tab.max_sessions
             /\ \A i \in WideSlots :
                   (i < tab.max_sessions /\ i # tab'.last.mds)
                       => tab'.sessions[i] = tab.sessions[i]
             /\ tab'.sessions[tab'.last.mds] = tab'.nsess
             /\ tab'.nsess = tab.nsess + 1]_vars

\* a session was registered for rank 4 in a table of capacity 2 that held
\* the session of rank 0: the capacity is 8
C24_Witness ==
    /\ tab.last = [kind |-> "register", mds |-> 4, from |-> 2, ret |-> "ok"]
    /\ tab.max_sessions = 8
    /\ tab.sessions[0] # 0
    /\ tab.sessions[4] # 0

\* C25: after each add_cap_releases that succeeds and after each
\* send_cap_releases the session has s_num_cap_releases >= s_nr_caps +
\* cap_release_safety, also when a message that holds releases moved to
\* s_cap_releases_done
C25_ReleaseSlots ==
    (rel.fault = "none" /\ rel.last.kind \in {"add", "send"} /\ rel.last.ret = 0)
        => rel.s_num_cap_releases >= rel.s_nr_caps + rel.safety

\* a tick moved a message that holds releases to s_cap_releases_done and
\* sent it, with caps left on the session
C25_Witness ==
    /\ rel.last.kind = "send"
    /\ rel.fault = "none"
    /\ rel.sent > 0
    /\ rel.s_nr_caps > 0
    /\ rel.safety > 0
    /\ rel.s_num_cap_releases = rel.s_nr_caps + rel.safety

\* C27: when a map of a newer epoch gives a new address to a rank whose
\* session is opening, after the step the session is not in the table and
\* none of the requests that waited on it is on its s_waiting list
C27_OpeningClosedOut ==
    [][\A i \in Ranks :
          (/\ ev'.kind = "map" /\ ev'.how = "new"
           /\ fault' = "none"
           /\ i < mdsmap.max_mds /\ i < max_sessions
           /\ sessions[i] # 0
           /\ sess[sessions[i]].s_state = "opening"
           /\ mdsmap.addr[i] # mdsmap'.addr[i])
              => /\ \A m \in Slots : sessions'[m] # sessions[i]
                 /\ \A k \in DOMAIN sess[sessions[i]].s_waiting :
                       \A j \in DOMAIN sess'[sessions[i]].s_waiting :
                           sess'[sessions[i]].s_waiting[j]
                               # sess[sessions[i]].s_waiting[k]]_vars

\* the requests kick_requests(mds, all) is to dispatch in the state: the
\* registered requests without an unsafe reply whose session, or with all
\* whose forwarding session, is the one of mds
KickSet(mds, all) ==
    {r \in request_tree :
        /\ ~req[r].got_unsafe
        /\ \/ SessionMds(Cur, req[r].session) = mds
           \/ all /\ SessionMds(Cur, req[r].fwd_session) = mds}

\* the same with the requests that have an unsafe reply and no safe reply
KickSetNotSafe(mds, all) ==
    {r \in request_tree :
        /\ ~req[r].got_safe
        /\ \/ SessionMds(Cur, req[r].session) = mds
           \/ all /\ SessionMds(Cur, req[r].fwd_session) = mds}

\* K is the state kick_requests leaves when it dispatched exactly the
\* requests of todo: in ascending tid order, each one with its session
\* references dropped and through __do_request (sent, parked or completed),
\* every other request as it was
KickedExactly(K, todo) ==
    /\ {K.kicked[i] : i \in DOMAIN K.kicked} = todo
    /\ Len(K.kicked) = Cardinality(todo)
    /\ \A i, j \in DOMAIN K.kicked :
          i < j => req[K.kicked[i]].tid < req[K.kicked[j]].tid
    /\ \A r \in todo :
          /\ K.req[r].fwd_session = 0
          /\ \/ Parked(K, r) /\ K.req[r].session = 0
             \/ K.req[r].attempts = req[r].attempts + 1 /\ K.req[r].session # 0
             \/ K.req[r].reply # "none"
    /\ \A r \in Reqs \ todo : K.req[r] = req[r]

\* C28: kick_requests(mds, all) dispatches, in ascending tid order, the
\* registered requests without an unsafe reply whose session is the one of
\* mds, or with all whose forwarding session is: their session references
\* are dropped and they go through __do_request; the other requests, those
\* with an unsafe reply among them, stay as they are
C28_KickSkipsUnsafe ==
    \A mds \in Ranks, all \in BOOLEAN :
        \A os \in OracleFns(mdsmap, 0) :
            kick_requests(Cur, mds, all, os).fault = "none"
                => KickedExactly(kick_requests(Cur, mds, all, os), KickSet(mds, all))

\* C28 as stated: the requests with an unsafe reply and no safe reply are
\* dispatched too
C28_KickIncludesUnsafe ==
    \A mds \in Ranks, all \in BOOLEAN :
        \A os \in OracleFns(mdsmap, 0) :
            kick_requests(Cur, mds, all, os).fault = "none"
                => KickedExactly(kick_requests(Cur, mds, all, os),
                                 KickSetNotSafe(mds, all))

\* the close of the session of mds0 kicked a request of the session and
\* left the other, which has an unsafe reply from mds0 and no safe reply
C28_Witness ==
    /\ ev.kind = "session" /\ ev.how = "close"
    /\ Len(ev.kicked) = 1
    /\ \E r \in request_tree :
          /\ req[r].got_unsafe /\ ~req[r].got_safe
          /\ SessionMds(Cur, req[r].session) = 0
          /\ req[ev.kicked[1]].tid > req[r].tid

\* message i of out is the reconnect message of session s
IsReconnect(out, i, s) == out[i].type = "reconnect" /\ out[i].sid = s

\* message j of out is a request message to rank m
IsRequestTo(out, j, m) == out[j].type = "request" /\ out[j].mds = m

\* C29: when a newer map changes the state or the address of a rank m to
\* reconnect and m keeps its session, the step sets the session to
\* reconnecting with s_seq = 0, then sends each request of s_unsafe to m with
\* its tid and the replay flag, then the reconnect message, and then opens
\* the session and dispatches its s_waiting list; no other request goes to
\* m before the reconnect message
C29_ReconnectOrder ==
    [][\A m \in Ranks :
          (/\ ev'.kind = "map" /\ ev'.how = "new"
           /\ fault' = "none"
           /\ m < mdsmap.max_mds /\ m < max_sessions
           /\ sessions[m] # 0
           /\ sessions'[m] = sessions[m]
           /\ ceph_mdsmap_get_state(mdsmap', m) = "reconnect"
           /\ \/ mdsmap.addr[m] # mdsmap'.addr[m]
              \/ ceph_mdsmap_get_state(mdsmap, m) # "reconnect")
              => /\ \E k \in DOMAIN ev'.out :
                      /\ IsReconnect(ev'.out, k, sessions[m])
                      /\ \A i \in DOMAIN sess[sessions[m]].s_unsafe :
                            \E j \in 1..(k - 1) :
                                /\ IsRequestTo(ev'.out, j, m)
                                /\ ev'.out[j].tid =
                                       req[sess[sessions[m]].s_unsafe[i]].tid
                                /\ ev'.out[j].replay
                      /\ \A j \in 1..(k - 1) :
                            IsRequestTo(ev'.out, j, m)
                                => \E i \in DOMAIN sess[sessions[m]].s_unsafe :
                                      ev'.out[j].tid =
                                          req[sess[sessions[m]].s_unsafe[i]].tid
                 /\ <<"reconnecting", "open">> \in ev'.moves
                 /\ sess'[sessions[m]].s_state = "open"
                 /\ sess'[sessions[m]].s_seq = 0
                 /\ sess'[sessions[m]].s_waiting = <<>>]_vars

\* C30: each pass that overflows the buffer retries with a larger one
C30_RetryGrows ==
    [][(rc'.tries = rc.tries + 1) => rc'.len > rc.len]_vars

\* jiffies now is at or after t, as an unsigned long that wraps
Expired(now, t) == \E d \in 0..((MaxJiffies \div 2) - 1) : now = (t + d) % MaxJiffies

\* C31: on SESSION_RENEWCAPS s_cap_ttl becomes s_renew_requested plus the
\* session timeout, and the cap waiters of every inode with a cap on the
\* session are woken exactly when the session was stale before the message
\* (s_cap_ttl 0 or expired) and is fresh after it (now before the new
\* s_cap_ttl); on SESSION_OPEN s_cap_ttl is set the same way and no cap
\* waiter is woken.
C31_RenewWakes ==
    [][/\ (rn'.op = "renewcaps" /\ HandleRenewCaps) =>
              /\ rn'.s_cap_ttl = (rn.s_renew_requested + rn.timeout) % MaxJiffies
              /\ rn'.woke = IF /\ (rn.s_cap_ttl = 0 \/ Expired(rn.jiffies, rn.s_cap_ttl))
                               /\ ~Expired(rn.jiffies, rn'.s_cap_ttl)
                            THEN rn.s_caps ELSE {}
       /\ (rn'.op = "open" /\ HandleOpen) =>
              /\ rn'.s_cap_ttl = (rn.s_renew_requested + rn.timeout) % MaxJiffies
              /\ rn'.woke = {}]_vars

\* a RENEWCAPS has woken cap waiters, after an earlier one that came while
\* the session was fresh or stayed stale woke none
C31_Witness ==
    /\ rn.op = "renewcaps"
    /\ rn.woke # {}
    /\ rn.jiffies > 0
    /\ rn.s_renew_requested > 0

\* the REVOKE_ACK messages of out that go to rank m
RevokeAcks(out, m) ==
    {i \in DOMAIN out : out[i].action = "revoke_ack" /\ out[i].mds = m}

\* a step that handled a well-formed REVOKE from rank m naming target
RevokeFrom(m, target) ==
    /\ ls'.op = [kind |-> "lease", mds |-> m, action |-> "revoke",
                 target |-> target, bad |-> FALSE]
    /\ \E seq \in 0..1, fresh \in BOOLEAN :
          HandleLease(m, "revoke", target, seq, fresh, FALSE)

\* what the claim says of the leases after a REVOKE from m naming target
RevokeClears(m, target) ==
    /\ target \in Dentries =>
          ~(/\ ls'.di[target].lease_session # 0
            /\ ls'.di[target].lease_session = ls.sessions[m])
    /\ (\/ target \notin Dentries
        \/ ls.di[target].lease_session # ls.sessions[m]) => ls'.di = ls.di

\* C32 as stated: after a lease REVOKE from rank m naming a dentry, the
\* dentry holds no lease of m's session and exactly one REVOKE_ACK has been
\* sent to m, also when the inode or dentry is unknown or the lease is
\* another session's, and then the leases are unchanged.
C32_RevokeAcked ==
    [][\A m \in Ranks, target \in LeaseTargets :
          RevokeFrom(m, target) =>
              /\ RevokeClears(m, target)
              /\ Cardinality(RevokeAcks(ls'.out, m)) = 1
              /\ Len(ls'.out) = 1]_vars

\* C32 amended: the same when rank m has a session in the session table;
\* a REVOKE from a rank with no session is dropped: no REVOKE_ACK, no
\* change to any lease.
C32_RevokeAckedBySession ==
    [][\A m \in Ranks, target \in LeaseTargets :
          RevokeFrom(m, target) =>
              IF ls.sessions[m] # 0
              THEN /\ RevokeClears(m, target)
                   /\ Cardinality(RevokeAcks(ls'.out, m)) = 1
                   /\ Len(ls'.out) = 1
                   /\ ls'.out[1].sid = ls.sessions[m]
              ELSE ls'.out = <<>> /\ ls'.di = ls.di]_vars

\* a REVOKE has dropped the lease of one dentry and was acked with the
\* lease's seq, while the other dentry keeps a lease of another session
C32_Witness ==
    /\ ls.op.kind = "lease" /\ ls.op.action = "revoke" /\ ~ls.op.bad
    /\ ls.op.target = "d1"
    /\ ls.di["d1"].lease_session = 0 /\ ls.di["d1"].lease_seq = 1
    /\ Len(ls.out) = 1 /\ ls.out[1].action = "revoke_ack" /\ ls.out[1].seq = 1
    /\ ls.di["d2"].lease_session # 0
    /\ ls.di["d2"].lease_session # ls.sessions[ls.op.mds]

\* C33: BUG_ON(req->r_reply) in handle_reply never fires: whenever a reply
\* that is no duplicate reaches it for a registered request with a session,
\* r_reply holds neither a reply nor an error, also after __do_request or
\* __prepare_send_request completed the request with an error or the
\* caller's timed wait stored EIO.
C33_ReplySlotEmpty ==
    ~(/\ ev.kind = "reply" /\ ev.how = "bug" /\ fault = "oops"
      /\ req[ev.r].session # 0
      /\ req[ev.r].reply # "none")

\* C34: BUG_ON(req->r_session == NULL) in handle_reply never fires: whenever
\* a safe reply comes for a request that has got_unsafe set, the request
\* has a session, also after a forward, a kick or an ESTALE retry dropped
\* its sessions and re-entered __do_request.
C34_SafeHasSession ==
    ~(/\ ev.kind = "reply" /\ ev.how = "bug" /\ fault = "oops"
      /\ req[ev.r].got_unsafe /\ req[ev.r].got_safe
      /\ req[ev.r].session = 0)

\* C35: no request message is handed to the messenger for a request that
\* is not in the request map at that moment: a request unregistered by a
\* safe reply, by the caller's cleanup or by the teardown is never sent or
\* resent by __wake_requests, kick_requests, an ESTALE retry or a forward.
C35_SentOnlyRegistered ==
    \A i \in DOMAIN ev.out :
        ev.out[i].type = "request" => ev.out[i].registered

\* C36: each request is unregistered at most once: over safe replies, the
\* caller's cleanup and the teardown of wait_requests the reference of the
\* request map is put once, so no step puts it for a request that is no
\* longer in the request map.
C36_UnregisteredOnce == ev.gone = {}

\* C37: in every reachable state a request is linked through r_wait on at
\* most one wait list (waiting_for_map or the s_waiting of one session) and
\* at most once: __do_request never does list_add on the r_wait of a
\* request that is parked, whichever of submit, wake, kick, forward or
\* ESTALE retry re-enters it.
C37_ParkedAtMostOnce ==
    /\ fault # "list"
    /\ \A r \in Reqs : Parked(Cur, r) => ParkedOnce(r)

\* C38: while it processes a new map, check_new_map does not operate on a
\* session it unregistered in the same pass: no reconnect is sent through
\* an absent session (send_mds_reconnect reaching ceph_con_send with no
\* session stops the handler) and ceph_kick_flushing_caps is applied only
\* to a session the session table holds, also when the new map puts the
\* rank in reconnect or takes it from below active to active.
C38_NoUseAfterUnregister ==
    /\ \A k \in ev.kickcaps : k.listed
    /\ ~(/\ ev.kind = "map" /\ fault = "oops"
         /\ \E m \in Ranks : mdsmap.state[m] = "reconnect" /\ sessions[m] = 0)

\* the threads thread t waits for, directly or through other waiting threads
RECURSIVE WaitsOn(_, _)
WaitsOn(S, n) ==
    IF n = 0 THEN S
    ELSE WaitsOn(S \cup UNION {Blockers(lk, u) : u \in S}, n - 1)

\* C39: no reachable state has a cycle of threads each waiting for
\* mdsc->mutex, an s_mutex or snap_rwsem held by the next, with callers,
\* dispatch threads, the tick, sync and shutdown running side by side
C39_NoWaitCycle ==
    \A t \in Threads : t \notin WaitsOn(Blockers(lk, t), MaxThreads)

\* a thread inside send_mds_reconnect holds an s_mutex and waits in
\* replay_unsafe_requests for mdsc->mutex, and another thread waits for the
\* s_mutex it holds
C39_Witness ==
    \E t \in Threads, u \in Threads, s \in LockSess :
        /\ lk.owner[s_mutex(s)] = t
        /\ lk.thr[t] # <<>>
        /\ Head(lk.thr[t]) = mutex_lock(mdsc_mutex)
        /\ Blockers(lk, t) # {}
        /\ t \in Blockers(lk, u)

\* C40: r_completion (or the request callback) is signalled at most once
\* per request, whatever replies, parse errors, timeouts, message-build
\* failures, kicks and wakes follow one another
C40_CompletedOnce ==
    \A r \in Reqs : req[r].completion <= 1

====
